---- MODULE Spec2Model ----
(***************************************************************************)
(* A model of py-aspio (package aspio):                                    *)
(*   - the dlvhex2 protocol driver (aspio/solver/dlvhex2.py): run(),       *)
(*     DlvhexLineReader iteration, close()/finalizer cleanup, the stderr   *)
(*     capture thread and the temporary IPC resource;                      *)
(*   - the output result mapper (aspio/output.py): OutputResult.get_object *)
(*     and the evaluation of output expressions.                           *)
(***************************************************************************)
EXTENDS Integers, Sequences, FiniteSets, TLC

(***************************************************************************)
(* Bounds of the model.                                                    *)
(***************************************************************************)
\* Answer-set lines the subprocess can print.
MaxLines == 2
\* Capacity (in chunks) of the named pipe that carries the program input.
FifoCap == 1
\* Capacity (in chunks) of the OS pipe behind the subprocess's stderr.
ErrCap == 1
\* Capacity (in chunks) of the buffer of the text stream that write_input
\* writes to; a chunk that is not full takes the room of a chunk.
BufCap == 1
\* The program input is one chunk larger than the named pipe can buffer.
InputLen == FifoCap + 1
\* The subprocess can write one chunk more to stderr than the pipe can buffer.
MaxErr == ErrCap + 1
\* Iterations the caller starts on one DlvhexLineReader.
MaxIterations == 2

(***************************************************************************)
(* Program constants.                                                      *)
(***************************************************************************)
SIGTERM == 15
SIGKILL == 9
SIGABRT == 6
\* dlvhex2's exit code when its own SIGTERM handler ran.
ExitOnTerm == 2

\* Return codes a subprocess can end with by itself.
OwnRc == {0, 1, ExitOnTerm}
\* Outcomes of a SIGTERM delivered to the running subprocess.
SigtermRc == {ExitOnTerm, -SIGTERM, -SIGABRT}

(***************************************************************************)
(* State of the protocol driver.                                           *)
(*                                                                         *)
(* drv: the main thread and the objects it owns                            *)
(*   mode         "none" | "pipe" | "file": the kind of tmp_input          *)
(*   ipc          "none" | "exists" | "removed": the temporary pipe/file   *)
(*   pc           position of the main thread (run, caller, iterator,      *)
(*                cleanup)                                                 *)
(*   genState     "none" | "new" | "suspended" | "done": generator of      *)
(*                DlvhexLineReader.__iter__                                *)
(*   invoker      who called the cleanup: "none" | "iter" | "close" | "gc" *)
(*   returncode   Popen.returncode: << >> is None, <<rc>> a value          *)
(*   raising      "none" or the exception that is on its way out of the    *)
(*                with block and through the handlers of run()             *)
(*   fifoW        "unopened" | "open" | "closed": our end of the pipe      *)
(*   written      chunks of input written by write_input                   *)
(*   buffered     chunks the stream on the named pipe holds in its buffer  *)
(*   stdinDirty   process.stdin holds bytes a failed flush left behind     *)
(*   stdinClosed, stdoutClosed, stderrClosed   the Popen streams' .closed  *)
(*   iterating    DlvhexLineReader.iterating                               *)
(*   finAlive     the weakref.finalize object is alive                     *)
(*   foundAlive   __close found the subprocess running and terminated it   *)
(*                                                                         *)
(* sub: the subprocess and the OS pipes between it and the driver          *)
(*   state        "none" | "running" | "exited"                            *)
(*   pc           "start" | "opening" | "reading" | "solving" |            *)
(*                "finishing" | "errblocked"                               *)
(*   savedPc      where it resumes after a blocked write to stderr         *)
(*   rc           exit status (meaningful once exited)                     *)
(*   ownExit      it ended by itself, not by a signal of the driver        *)
(*   sigterm      SIGTERM sent to it and not yet acted upon                *)
(*   opened       it has opened tmp_input for reading                      *)
(*   emitted      answer-set lines it printed                              *)
(*   errWritten   chunks it wrote to stderr                                *)
(*   fifoBuf, stdoutBuf, stdinBuf, errBuf   content of the four pipes      *)
(*                                                                         *)
(* thr: the StreamCaptureThread                                            *)
(*   pc           "notstarted" | "reading" | "done"                        *)
(*   data         chunks read so far (the data attribute once done)        *)
(*                                                                         *)
(* obs: what the caller and an observer have seen                          *)
(*   wiCalled, wiReturned, fileClosed   write_input invoked / returned,    *)
(*                and the stream it wrote to closed                        *)
(*   startedBeforeWrite  the subprocess was running when write_input was   *)
(*                invoked                                                  *)
(*   wiExc        "none" or the exception write_input raised               *)
(*   wiBuffered   chunks in the stream's buffer when write_input came back *)
(*   yielded, nextCalls, acks   lines yielded, next() calls on the live    *)
(*                generator, acknowledgements written                      *)
(*   iterations   generators of __iter__ whose body was started            *)
(*   cleanupRuns  number of times __close was entered                      *)
(*   classified   "none" | "ok" | "error": the decision of line 193        *)
(*   solverErrs   SolverSubprocessError objects raised                     *)
(*   errObj       << >> or <<[returncode, stderr, joined]>>                *)
(*   runExc       "none" or the exception run() raised                     *)
(*   lastExc      what the caller's last call ended with                   *)
(*   iterExc      how the generator ended ("none" while it has not)        *)
(*   closeExc     what __close raised ("none" if nothing)                  *)
(*   midClose     "no" | "close" | "gc": cleanup requested while the       *)
(*                generator was suspended and the subprocess running       *)
(*   midCloseExc  the exception that reached the caller from that request  *)
(*   cleanupBy    "none" | "iter" | "close" | "gc": who ran __close        *)
(***************************************************************************)
VARIABLES drv, sub, thr, obs, res, stk, ctl, out, inp, wire, cit

dvars == <<drv, sub, thr, obs>>
ovars == <<res, stk, ctl, out>>
\* The variables of the input mapper (inp), of the wire formats (wire) and
\* of the caching iterable (cit), which the solver driver and the output
\* mapper leave alone.
xvars == <<inp, wire, cit>>
vars == <<drv, sub, thr, obs, res, stk, ctl, out, inp, wire, cit>>

None == << >>

DInit ==
    /\ drv = [mode |-> "none", ipc |-> "none", pc |-> "r_start", genState |-> "none",
              invoker |-> "none", returncode |-> None, raising |-> "none",
              fifoW |-> "unopened",
              written |-> 0, buffered |-> 0, stdinDirty |-> FALSE, stdinClosed |-> FALSE,
              stdoutClosed |-> FALSE, stderrClosed |-> FALSE, iterating |-> FALSE,
              finAlive |-> FALSE, foundAlive |-> FALSE]
    /\ sub = [state |-> "none", pc |-> "start", savedPc |-> "start", rc |-> 0,
              ownExit |-> FALSE, sigterm |-> FALSE, opened |-> FALSE, emitted |-> 0,
              errWritten |-> 0, fifoBuf |-> 0, stdoutBuf |-> 0, stdinBuf |-> 0,
              errBuf |-> 0]
    /\ thr = [pc |-> "notstarted", data |-> 0]
    /\ obs = [wiCalled |-> FALSE, wiReturned |-> FALSE, fileClosed |-> FALSE,
              startedBeforeWrite |-> FALSE, wiExc |-> "none", wiBuffered |-> 0,
              yielded |-> 0, nextCalls |-> 0, acks |-> 0, iterations |-> 0,
              cleanupRuns |-> 0,
              classified |-> "none", solverErrs |-> 0, errObj |-> None,
              runExc |-> "none", lastExc |-> "none", iterExc |-> "none",
              closeExc |-> "none", midClose |-> "no", midCloseExc |-> "none",
              cleanupBy |-> "none"]

(***************************************************************************)
(* Dlvhex2Solver.run                                                       *)
(***************************************************************************)
\* Popen.poll() / Popen.wait(): the return code once the subprocess ended.
Reaped(rcode) == IF rcode = None /\ sub.state = "exited" THEN <<sub.rc>> ELSE rcode

\* The subprocess after process.kill(): SIGKILL ends it unless it has ended.
Killed(s) ==
    IF s.state = "running"
    THEN [s EXCEPT !.state = "exited", !.rc = -SIGKILL, !.ownExit = FALSE]
    ELSE s

\* RunCreateIpc with the test of line 73 lost: the subprocess is started
\* first whatever tmp_input is.
RunCreateIpc_PopenFirst ==
    /\ drv.pc = "r_start"
    /\ \E m \in {"pipe", "file"} :
         drv' = [drv EXCEPT !.mode = m, !.ipc = "exists", !.pc = "r_popen"]
    /\ UNCHANGED <<sub, thr, obs>>
    /\ UNCHANGED <<ovars, xvars>>

\* Lines 42-45 and 73: create tmp_input; a named pipe where mkfifo exists,
\* a temporary file otherwise.  With a file the input is written first.
RunCreateIpc ==
    /\ drv.pc = "r_start"
    /\ \E m \in {"pipe", "file"} :
         drv' = [drv EXCEPT !.mode = m, !.ipc = "exists",
                            !.pc = IF m = "file" THEN "r_fwrite" ELSE "r_popen"]
    /\ UNCHANGED <<sub, thr, obs>>
    /\ UNCHANGED <<ovars, xvars>>

\* Lines 73-75 (and 102-104): with a temporary file, write_input runs on the
\* file, which is closed when the with block ends (writing to a file and
\* closing it neither block nor fail); if write_input raises, the file is
\* removed and the exception leaves run().
RunWriteFile ==
    /\ drv.pc = "r_fwrite"
    /\ \E ok \in BOOLEAN :
         IF ok
         THEN /\ drv' = [drv EXCEPT !.pc = "r_popen", !.written = InputLen]
              /\ obs' = [obs EXCEPT !.wiCalled = TRUE, !.wiReturned = TRUE,
                                    !.fileClosed = TRUE,
                                    !.startedBeforeWrite = (sub.state # "none")]
         ELSE /\ drv' = [drv EXCEPT !.pc = "run_raised", !.ipc = "removed"]
              /\ obs' = [obs EXCEPT !.wiCalled = TRUE, !.fileClosed = TRUE,
                                    !.startedBeforeWrite = (sub.state # "none"),
                                    !.wiExc = "InputError",
                                    !.runExc = "InputError", !.lastExc = "InputError"]
    /\ UNCHANGED <<sub, thr>>
    /\ UNCHANGED <<ovars, xvars>>

\* Lines 78-83 (and 102-104): start the subprocess; Popen may fail (OSError),
\* then tmp_input is removed and the exception leaves run().
RunPopen ==
    /\ drv.pc = "r_popen"
    /\ \E ok \in BOOLEAN :
         IF ok
         THEN /\ drv' = [drv EXCEPT !.pc = IF drv.mode = "pipe" THEN "r_open"
                                                                ELSE "r_construct"]
              /\ sub' = [sub EXCEPT !.state = "running", !.pc = "start"]
              /\ obs' = obs
         ELSE /\ drv' = [drv EXCEPT !.pc = "run_raised", !.ipc = "removed"]
              /\ obs' = [obs EXCEPT !.runExc = "OSError", !.lastExc = "OSError"]
              /\ sub' = sub
    /\ UNCHANGED thr
    /\ UNCHANGED <<ovars, xvars>>

\* Line 89: open the named pipe for writing.  The open returns when the
\* subprocess has the pipe open for reading (the two opens of a FIFO wait
\* for each other); write_input is invoked next.
RunOpenPipe ==
    /\ drv.pc = "r_open"
    /\ sub.state = "running" /\ sub.pc = "opening"
    /\ drv' = [drv EXCEPT !.pc = "r_write", !.fifoW = "open"]
    /\ sub' = [sub EXCEPT !.pc = "reading", !.opened = TRUE]
    /\ obs' = [obs EXCEPT !.wiCalled = TRUE, !.startedBeforeWrite = (sub.state # "none")]
    /\ UNCHANGED thr
    /\ UNCHANGED <<ovars, xvars>>

\* Line 90: write_input comes back to the with block of line 89, with the
\* exception exc or, having returned, with "none".  What it wrote and the
\* stream has not passed on to the named pipe is still in the buffer.
RunLeaveWith(exc) ==
    /\ drv' = [drv EXCEPT !.pc = "r_exit", !.raising = exc]
    /\ obs' = [obs EXCEPT !.wiReturned = (exc = "none"), !.wiExc = exc,
                          !.wiBuffered = drv.buffered]
    /\ UNCHANGED <<sub, thr>>

\* Line 90: write_input writes one chunk to the stream, which buffers it.
RunWriteChunk ==
    /\ drv.pc = "r_write"
    /\ drv.written < InputLen
    /\ drv.buffered < BufCap
    /\ drv' = [drv EXCEPT !.written = @ + 1, !.buffered = @ + 1]
    /\ UNCHANGED <<sub, thr, obs>>
    /\ UNCHANGED <<ovars, xvars>>

\* Line 90: inside write_input the stream passes a buffered chunk on to the
\* named pipe, because write_input writes more than the buffer has room
\* for or because write_input flushes the stream: the
\* write blocks while the pipe is full and raises BrokenPipeError once the
\* reader is gone.
RunFlushChunk ==
    /\ drv.pc = "r_write"
    /\ drv.buffered > 0
    /\ IF sub.state = "exited"
       THEN RunLeaveWith("BrokenPipeError")
       ELSE /\ sub.fifoBuf < FifoCap
            /\ drv' = [drv EXCEPT !.buffered = @ - 1]
            /\ sub' = [sub EXCEPT !.fifoBuf = @ + 1]
            /\ UNCHANGED <<thr, obs>>
    /\ UNCHANGED <<ovars, xvars>>

\* Line 90: write_input itself raises, before or after it has written (e.g.
\* the argument count mismatch of the input mapping, which is checked before
\* anything is written, or an accessor that cannot be resolved after some
\* facts were written).
RunWriteRaises ==
    /\ drv.pc = "r_write"
    /\ RunLeaveWith("InputError")
    /\ UNCHANGED <<ovars, xvars>>

\* Line 90: write_input returns.
RunWriteReturns ==
    /\ drv.pc = "r_write"
    /\ drv.written = InputLen
    /\ RunLeaveWith("none")
    /\ UNCHANGED <<ovars, xvars>>

\* Lines 89-90, the end of the with block: closing the stream flushes its
\* buffer to the named pipe first.  The flush blocks while the pipe is full.
\* Once the reader is gone it raises BrokenPipeError, which takes the place
\* of an exception of write_input on its way out; the pipe is closed all
\* the same.
RunExitFlush ==
    /\ drv.pc = "r_exit"
    /\ drv.buffered > 0
    /\ IF sub.state = "exited"
       THEN /\ drv' = [drv EXCEPT !.pc = "r_fail", !.raising = "BrokenPipeError",
                                  !.buffered = 0, !.fifoW = "closed"]
            /\ obs' = [obs EXCEPT !.fileClosed = TRUE]
            /\ sub' = sub
       ELSE /\ sub.fifoBuf < FifoCap
            /\ drv' = [drv EXCEPT !.buffered = @ - 1]
            /\ sub' = [sub EXCEPT !.fifoBuf = @ + 1]
            /\ obs' = obs
    /\ UNCHANGED thr
    /\ UNCHANGED <<ovars, xvars>>

\* Lines 89-91, the end of the with block with nothing left in the buffer:
\* the named pipe is closed and the subprocess sees the end of its input;
\* if write_input returned run() goes on, otherwise the exception reaches
\* the handlers of run(), before which the subprocess can read the end of
\* its input and go on.
RunClosePipe ==
    /\ drv.pc = "r_exit"
    /\ drv.buffered = 0
    /\ drv' = [drv EXCEPT !.pc = IF drv.raising = "none" THEN "r_construct" ELSE "r_fail",
                          !.fifoW = "closed"]
    /\ obs' = [obs EXCEPT !.fileClosed = TRUE]
    /\ UNCHANGED <<sub, thr>>
    /\ UNCHANGED <<ovars, xvars>>

\* RunFail without the handler of lines 95-101: only tmp_input is removed.
RunFail_CleanupOnly ==
    /\ drv.pc = "r_fail"
    /\ drv' = [drv EXCEPT !.pc = "run_raised", !.ipc = "removed", !.raising = "none"]
    /\ sub' = sub
    /\ obs' = [obs EXCEPT !.runExc = drv.raising, !.lastExc = drv.raising]
    /\ UNCHANGED thr
    /\ UNCHANGED <<ovars, xvars>>

\* Lines 95-104: the handlers of run() for an exception after Popen: kill
\* the subprocess, close its three streams, remove tmp_input and re-raise.
\* Whether process.kill() reaps a subprocess that has ended already depends
\* on the Python version (Popen.send_signal polls first from 3.9 on).
RunFail ==
    /\ drv.pc = "r_fail"
    /\ \E rcode \in {drv.returncode, Reaped(drv.returncode)} :
         drv' = [drv EXCEPT !.pc = "run_raised", !.ipc = "removed", !.raising = "none",
                            !.stdinClosed = TRUE, !.stdoutClosed = TRUE,
                            !.stderrClosed = TRUE, !.returncode = rcode]
    /\ sub' = Killed(sub)
    /\ obs' = [obs EXCEPT !.runExc = drv.raising, !.lastExc = drv.raising]
    /\ UNCHANGED thr
    /\ UNCHANGED <<ovars, xvars>>

\* Lines 93-94 and 116-131: DlvhexLineReader.__init__ starts the stderr
\* capture thread and registers the finalizer; run() returns the stream.
RunConstruct ==
    /\ drv.pc = "r_construct"
    /\ drv' = [drv EXCEPT !.pc = "idle", !.genState = "new", !.iterating = FALSE,
                          !.finAlive = TRUE]
    /\ thr' = [thr EXCEPT !.pc = "reading"]
    /\ UNCHANGED <<sub, obs>>
    /\ UNCHANGED <<ovars, xvars>>

(***************************************************************************)
(* The dlvhex2 subprocess, as far as the driver relies on it: it opens and *)
(* reads the input named on its command line, prints one answer set per    *)
(* line and, started with --waitonmodel, waits for a newline on stdin      *)
(* before it prints the next; it may write to stderr and may end by itself *)
(* at any time it is not blocked in the kernel.                            *)
(***************************************************************************)
\* The subprocess reaches the open of its input: a FIFO's open waits for the
\* writer (RunOpenPipe); a file is opened and read at once.
ProcOpenInput ==
    /\ sub.state = "running" /\ sub.pc = "start"
    /\ sub' = IF drv.mode = "pipe"
              THEN [sub EXCEPT !.pc = "opening"]
              ELSE [sub EXCEPT !.pc = "solving", !.opened = TRUE]
    /\ UNCHANGED <<drv, thr, obs>>
    /\ UNCHANGED <<ovars, xvars>>

\* It reads one chunk of input from the named pipe.
ProcReadChunk ==
    /\ sub.state = "running" /\ sub.pc = "reading"
    /\ sub.fifoBuf > 0
    /\ sub' = [sub EXCEPT !.fifoBuf = @ - 1]
    /\ UNCHANGED <<drv, thr, obs>>
    /\ UNCHANGED <<ovars, xvars>>

\* It reads end of file from the named pipe: the writer has closed it.
ProcReadEof ==
    /\ sub.state = "running" /\ sub.pc = "reading"
    /\ sub.fifoBuf = 0 /\ drv.fifoW = "closed"
    /\ sub' = [sub EXCEPT !.pc = "solving"]
    /\ UNCHANGED <<drv, thr, obs>>
    /\ UNCHANGED <<ovars, xvars>>

\* Acknowledgements the subprocess has consumed.
AcksReceived == obs.acks - sub.stdinBuf

\* --waitonmodel: it prints the next answer set when every earlier one has
\* been acknowledged.
ProcEmitLine ==
    /\ sub.state = "running" /\ sub.pc = "solving"
    /\ sub.emitted < MaxLines
    /\ sub.emitted = AcksReceived
    /\ sub' = [sub EXCEPT !.emitted = @ + 1, !.stdoutBuf = @ + 1]
    /\ UNCHANGED <<drv, thr, obs>>
    /\ UNCHANGED <<ovars, xvars>>

\* It reads an acknowledgement newline from stdin.
ProcRecvAck ==
    /\ sub.state = "running" /\ sub.pc = "solving"
    /\ sub.stdinBuf > 0
    /\ sub' = [sub EXCEPT !.stdinBuf = @ - 1]
    /\ UNCHANGED <<drv, thr, obs>>
    /\ UNCHANGED <<ovars, xvars>>

\* It has no further answer set (or gives up) and closes stdout before it
\* ends.
ProcCloseStdout ==
    /\ sub.state = "running" /\ sub.pc = "solving"
    /\ sub' = [sub EXCEPT !.pc = "finishing"]
    /\ UNCHANGED <<drv, thr, obs>>
    /\ UNCHANGED <<ovars, xvars>>

\* It ends by itself with a return code; its ends of all pipes are closed.
ProcExit ==
    /\ sub.state = "running"
    /\ sub.pc \in {"start", "reading", "solving", "finishing"}
    /\ \E rc \in OwnRc :
         sub' = [sub EXCEPT !.state = "exited", !.rc = rc, !.ownExit = TRUE]
    /\ UNCHANGED <<drv, thr, obs>>
    /\ UNCHANGED <<ovars, xvars>>

\* Lines 176-181: SIGTERM reaches the running subprocess: its handler exits
\* with code 2, or the default action ends it (-SIGTERM), or it crashes
\* (-SIGABRT).  A subprocess that hangs does not take this step.
ProcOnSigterm ==
    /\ sub.state = "running" /\ sub.sigterm
    /\ \E rc \in SigtermRc :
         sub' = [sub EXCEPT !.state = "exited", !.rc = rc, !.ownExit = FALSE,
                            !.sigterm = FALSE]
    /\ UNCHANGED <<drv, thr, obs>>
    /\ UNCHANGED <<ovars, xvars>>

\* It writes a chunk to stderr; with the pipe full the write blocks.
ProcWriteErr ==
    /\ sub.state = "running"
    /\ sub.pc \in {"start", "reading", "solving", "finishing"}
    /\ sub.errWritten < MaxErr
    /\ sub' = IF sub.errBuf < ErrCap
              THEN [sub EXCEPT !.errBuf = @ + 1, !.errWritten = @ + 1]
              ELSE [sub EXCEPT !.pc = "errblocked", !.savedPc = sub.pc]
    /\ UNCHANGED <<drv, thr, obs>>
    /\ UNCHANGED <<ovars, xvars>>

\* A blocked write to stderr completes once the pipe has room.
ProcErrUnblock ==
    /\ sub.state = "running" /\ sub.pc = "errblocked"
    /\ sub.errBuf < ErrCap
    /\ sub' = [sub EXCEPT !.errBuf = @ + 1, !.errWritten = @ + 1, !.pc = sub.savedPc]
    /\ UNCHANGED <<drv, thr, obs>>
    /\ UNCHANGED <<ovars, xvars>>

\* stdout of the subprocess is at end of file for the driver.
StdoutEof == sub.stdoutBuf = 0 /\ (sub.state = "exited" \/ sub.pc = "finishing"
                                    \/ (sub.pc = "errblocked" /\ sub.savedPc = "finishing"))

(***************************************************************************)
(* StreamCaptureThread.run: read the stream to its end, then close it.     *)
(***************************************************************************)
ThreadRead ==
    /\ thr.pc = "reading"
    /\ sub.errBuf > 0
    /\ thr' = [thr EXCEPT !.data = @ + 1]
    /\ sub' = [sub EXCEPT !.errBuf = @ - 1]
    /\ UNCHANGED <<drv, obs>>
    /\ UNCHANGED <<ovars, xvars>>

ThreadEof ==
    /\ thr.pc = "reading"
    /\ sub.errBuf = 0 /\ sub.state = "exited"
    /\ thr' = [thr EXCEPT !.pc = "done"]
    /\ drv' = [drv EXCEPT !.stderrClosed = TRUE]
    /\ UNCHANGED <<sub, obs>>
    /\ UNCHANGED <<ovars, xvars>>

(***************************************************************************)
(* DlvhexLineReader.__iter__, driven by the caller's next() calls.         *)
(***************************************************************************)
\* Lines 135-138 (first next()) and 140-146 (a resumed generator).
\* First next(): the body starts, wrapping process.stdout, which raises
\* ValueError when close() has closed it already.  Resumed after a yield:
\* if stdin is open the acknowledgement is written and flushed, which fails
\* with BrokenPipeError when the subprocess is gone; if stdin is closed the
\* loop is left.  Leaving the with block closes process.stdout.
CallerNext ==
    /\ drv.pc = "idle"
    /\ drv.genState \in {"new", "suspended"}
    /\ IF drv.genState = "new"
       THEN IF drv.stdoutClosed
            THEN /\ drv' = [drv EXCEPT !.iterating = TRUE, !.genState = "done"]
                 /\ obs' = [obs EXCEPT !.nextCalls = @ + 1, !.lastExc = "ValueError",
                                       !.iterExc = "ValueError", !.iterations = @ + 1]
                 /\ sub' = sub
            ELSE /\ drv' = [drv EXCEPT !.iterating = TRUE, !.pc = "g_read"]
                 /\ obs' = [obs EXCEPT !.nextCalls = @ + 1, !.lastExc = "none",
                                       !.iterations = @ + 1]
                 /\ sub' = sub
       ELSE IF ~drv.stdinClosed
            THEN IF sub.state = "exited"
                 THEN /\ drv' = [drv EXCEPT !.stdinDirty = TRUE, !.stdoutClosed = TRUE,
                                            !.genState = "done"]
                      /\ obs' = [obs EXCEPT !.nextCalls = @ + 1,
                                            !.lastExc = "BrokenPipeError",
                                            !.iterExc = "BrokenPipeError"]
                      /\ sub' = sub
                 ELSE /\ drv' = [drv EXCEPT !.pc = "g_read"]
                      /\ obs' = [obs EXCEPT !.nextCalls = @ + 1, !.acks = @ + 1,
                                            !.lastExc = "none"]
                      /\ sub' = [sub EXCEPT !.stdinBuf = @ + 1]
            ELSE /\ drv' = [drv EXCEPT !.stdoutClosed = TRUE, !.pc = "g_wait"]
                 /\ obs' = [obs EXCEPT !.nextCalls = @ + 1, !.lastExc = "none"]
                 /\ sub' = sub
    /\ UNCHANGED thr
    /\ UNCHANGED <<ovars, xvars>>

\* The caller iterates over the reader again: for line in reader, that is
\* iter(reader) and the first next() of the new generator.  One whose
\* body skipped the assertion of line 135 would go on to read stdout.
CallerIterAgain_NoAssert ==
    /\ drv.pc = "idle"
    /\ drv.iterating
    /\ obs.iterations < MaxIterations
    /\ drv' = [drv EXCEPT !.pc = "g_read"]
    /\ obs' = [obs EXCEPT !.iterations = @ + 1, !.lastExc = "none"]
    /\ UNCHANGED <<sub, thr>>
    /\ UNCHANGED <<ovars, xvars>>

\* Lines 133-135, on a reader whose first generator has run line 136: the
\* new generator's body starts with the assertion on self.iterating, which
\* fails; the new generator is finished, the first one is as it was.
CallerIterAgain ==
    /\ drv.pc = "idle"
    /\ drv.iterating
    /\ obs.iterations < MaxIterations
    /\ obs' = [obs EXCEPT !.iterations = @ + 1, !.lastExc = "AssertionError"]
    /\ UNCHANGED <<drv, sub, thr>>
    /\ UNCHANGED <<ovars, xvars>>

\* GenRead acknowledging a line as soon as it is read, before yielding it.
GenRead_EagerAck ==
    /\ drv.pc = "g_read"
    /\ \/ /\ sub.stdoutBuf > 0
          /\ sub' = [sub EXCEPT !.stdoutBuf = @ - 1, !.stdinBuf = @ + 1]
          /\ drv' = [drv EXCEPT !.pc = "idle", !.genState = "suspended"]
          /\ obs' = [obs EXCEPT !.yielded = @ + 1, !.acks = @ + 1]
       \/ /\ sub.stdoutBuf = 0 /\ (sub.state = "exited" \/ sub.pc = "finishing")
          /\ drv' = [drv EXCEPT !.pc = "g_wait", !.stdoutClosed = TRUE]
          /\ UNCHANGED <<sub, obs>>
    /\ UNCHANGED thr
    /\ UNCHANGED <<ovars, xvars>>

\* Lines 139-140: read the next line of stdout and yield it; at end of file
\* leave the loop (and the with block, which closes process.stdout).
GenRead ==
    /\ drv.pc = "g_read"
    /\ \/ /\ sub.stdoutBuf > 0
          /\ sub' = [sub EXCEPT !.stdoutBuf = @ - 1]
          /\ drv' = [drv EXCEPT !.pc = "idle", !.genState = "suspended"]
          /\ obs' = [obs EXCEPT !.yielded = @ + 1]
       \/ /\ StdoutEof
          /\ drv' = [drv EXCEPT !.pc = "g_wait", !.stdoutClosed = TRUE]
          /\ UNCHANGED <<sub, obs>>
    /\ UNCHANGED thr
    /\ UNCHANGED <<ovars, xvars>>

\* Lines 152-156: give the subprocess 5 ms to end, then self.close().
GenWait ==
    /\ drv.pc = "g_wait"
    /\ drv' = [drv EXCEPT !.returncode = Reaped(@), !.pc = "c_enter", !.invoker = "iter"]
    /\ UNCHANGED <<sub, thr, obs>>
    /\ UNCHANGED <<ovars, xvars>>

(***************************************************************************)
(* close(), the finalizer and DlvhexLineReader.__close                     *)
(***************************************************************************)
\* The caller requests cleanup while the generator is suspended at a yield
\* and the subprocess is running.
MidIteration == drv.finAlive /\ drv.genState = "suspended" /\ sub.state = "running"

\* Line 158: the caller calls close().
CallerClose ==
    /\ drv.pc = "idle"
    /\ drv' = [drv EXCEPT !.pc = "c_enter", !.invoker = "close"]
    /\ obs' = [obs EXCEPT !.lastExc = "none",
                          !.midClose = IF MidIteration THEN "close" ELSE @]
    /\ UNCHANGED <<sub, thr>>
    /\ UNCHANGED <<ovars, xvars>>

\* Lines 129-131: the caller drops the last reference: a suspended generator
\* is closed (its with block closes process.stdout), then the finalizer
\* runs.
CallerDrop ==
    /\ drv.pc = "idle"
    /\ drv' = [drv EXCEPT !.pc = "c_enter", !.invoker = "gc", !.genState = "done",
                          !.stdoutClosed = (@ \/ drv.genState = "suspended")]
    /\ obs' = [obs EXCEPT !.lastExc = "none",
                          !.iterExc = IF @ = "none" THEN "dropped" ELSE @,
                          !.midClose = IF MidIteration THEN "gc" ELSE @]
    /\ UNCHANGED <<sub, thr>>
    /\ UNCHANGED <<ovars, xvars>>

\* The cleanup ends, raising exc ("none": returning): control goes back to
\* the generator's caller, to the caller of close(), or the finalizer
\* machinery swallows the exception.
ReturnDrv(d) ==
    [d EXCEPT !.pc = IF d.invoker = "gc" THEN "dropped" ELSE "idle",
              !.genState = IF d.invoker = "iter" THEN "done" ELSE @,
              !.invoker = "none"]

ReturnObs(o, exc) ==
    [o EXCEPT !.closeExc = IF exc # "none" THEN exc ELSE @,
              !.midCloseExc = IF exc # "none" /\ o.midClose = "close" /\ drv.invoker = "close"
                              THEN exc ELSE @,
              !.lastExc = IF drv.invoker = "gc" THEN "none"
                          ELSE IF drv.invoker = "iter" /\ exc = "none"
                          THEN "StopIteration" ELSE exc,
              !.iterExc = IF drv.invoker # "iter" THEN @
                          ELSE IF exc = "none" THEN "StopIteration" ELSE exc]

\* CloseEnter calling __close directly, without the finalizer's guard.
CloseEnter_NoGuard ==
    /\ drv.pc = "c_enter"
    /\ obs' = [obs EXCEPT !.cleanupRuns = @ + 1, !.cleanupBy = drv.invoker]
    /\ IF sub.state = "exited"
       THEN /\ drv' = [drv EXCEPT !.finAlive = FALSE,
                                  !.returncode = IF @ = None THEN <<sub.rc>> ELSE @,
                                  !.foundAlive = FALSE, !.pc = "c_streams"]
            /\ sub' = sub
       ELSE /\ drv' = [drv EXCEPT !.finAlive = FALSE, !.foundAlive = TRUE,
                                  !.pc = "c_wait"]
            /\ sub' = [sub EXCEPT !.sigterm = TRUE]
    /\ UNCHANGED thr
    /\ UNCHANGED <<ovars, xvars>>

\* CloseEnter with tmp_input.cleanup() moved to the start of __close.
CloseEnter_CleanupFirst ==
    /\ drv.pc = "c_enter"
    /\ IF ~drv.finAlive
       THEN /\ drv' = ReturnDrv(drv)
            /\ obs' = ReturnObs(obs, "none")
            /\ sub' = sub
       ELSE /\ obs' = [obs EXCEPT !.cleanupRuns = @ + 1, !.cleanupBy = drv.invoker]
            /\ IF sub.state = "exited"
               THEN /\ drv' = [drv EXCEPT !.finAlive = FALSE, !.returncode = Reaped(@),
                                          !.foundAlive = FALSE, !.pc = "c_streams",
                                          !.ipc = "removed"]
                    /\ sub' = sub
               ELSE /\ drv' = [drv EXCEPT !.finAlive = FALSE, !.foundAlive = TRUE,
                                          !.pc = "c_wait", !.ipc = "removed"]
                    /\ sub' = [sub EXCEPT !.sigterm = TRUE]
    /\ UNCHANGED thr
    /\ UNCHANGED <<ovars, xvars>>

\* Lines 158-159 and 165-167: the finalizer calls __close at most once.
\* __close polls the subprocess and, if it is running, sends SIGTERM.
CloseEnter ==
    /\ drv.pc = "c_enter"
    /\ IF ~drv.finAlive
       THEN /\ drv' = ReturnDrv(drv)
            /\ obs' = ReturnObs(obs, "none")
            /\ sub' = sub
       ELSE /\ obs' = [obs EXCEPT !.cleanupRuns = @ + 1, !.cleanupBy = drv.invoker]
            /\ IF sub.state = "exited"
               THEN /\ drv' = [drv EXCEPT !.finAlive = FALSE, !.returncode = Reaped(@),
                                          !.foundAlive = FALSE, !.pc = "c_streams"]
                    /\ sub' = sub
               ELSE /\ drv' = [drv EXCEPT !.finAlive = FALSE, !.foundAlive = TRUE,
                                          !.pc = "c_wait"]
                    /\ sub' = [sub EXCEPT !.sigterm = TRUE]
    /\ UNCHANGED thr
    /\ UNCHANGED <<ovars, xvars>>

\* NormalizeRc with -SIGABRT missing from the list of line 182.
NormalizeRc_NoAbort(rc) ==
    IF rc \in {ExitOnTerm, -SIGTERM, -SIGKILL} THEN 0 ELSE rc

\* Lines 182-184: outcomes of a termination the driver asked for are no
\* errors.
NormalizeRc(rc) ==
    IF rc \in {ExitOnTerm, -SIGTERM, -SIGKILL, -SIGABRT} THEN 0 ELSE rc

\* Lines 168-184: wait 1 ms; SIGKILL and wait if it is still running.
CloseWait ==
    /\ drv.pc = "c_wait"
    /\ sub' = [Killed(sub) EXCEPT !.sigterm = FALSE]
    /\ drv' = [drv EXCEPT !.returncode = <<NormalizeRc(sub'.rc)>>, !.pc = "c_streams"]
    /\ UNCHANGED <<thr, obs>>
    /\ UNCHANGED <<ovars, xvars>>

\* Lines 186-187: close stdin and stdout.  Closing stdin flushes it first:
\* bytes left by a failed flush make close() raise BrokenPipeError (the
\* descriptor is closed all the same) and __close ends there.
CloseStreams ==
    /\ drv.pc = "c_streams"
    /\ IF drv.stdinDirty /\ ~drv.stdinClosed
       THEN /\ drv' = [ReturnDrv(drv) EXCEPT !.stdinClosed = TRUE]
            /\ obs' = ReturnObs(obs, "BrokenPipeError")
       ELSE /\ drv' = [drv EXCEPT !.stdinClosed = TRUE, !.stdoutClosed = TRUE,
                                  !.pc = "c_join"]
            /\ obs' = obs
    /\ UNCHANGED <<sub, thr>>
    /\ UNCHANGED <<ovars, xvars>>

\* __close has ended in CloseStreams without tmp_input.cleanup() and the
\* exception it raised is released: the last reference to tmp_input goes
\* with it, and the tempfile.TemporaryDirectory of a TemporaryNamedPipe
\* removes its directory when it is collected.  A TemporaryFile (mkstemp)
\* stays.
TmpInputCollected ==
    /\ drv.pc \in {"idle", "dropped"}
    /\ drv.mode = "pipe" /\ drv.ipc = "exists"
    /\ ~drv.finAlive /\ obs.cleanupRuns > 0
    /\ drv' = [drv EXCEPT !.ipc = "removed"]
    /\ UNCHANGED <<sub, thr, obs>>
    /\ UNCHANGED <<ovars, xvars>>

\* CloseJoin without the join: __close goes on while the thread may still
\* be reading.
CloseJoin_NoJoin ==
    /\ drv.pc = "c_join"
    /\ drv' = [drv EXCEPT !.pc = "c_cleanup"]
    /\ UNCHANGED <<sub, thr, obs>>
    /\ UNCHANGED <<ovars, xvars>>

\* Line 188: join the stderr capture thread.
CloseJoin ==
    /\ drv.pc = "c_join"
    /\ thr.pc = "done"
    /\ drv' = [drv EXCEPT !.pc = "c_cleanup"]
    /\ UNCHANGED <<sub, thr, obs>>
    /\ UNCHANGED <<ovars, xvars>>

\* CloseCleanup forgetting tmp_input.cleanup().
CloseCleanup_Skip ==
    /\ drv.pc = "c_cleanup"
    /\ drv' = [drv EXCEPT !.pc = "c_raise"]
    /\ UNCHANGED <<sub, thr, obs>>
    /\ UNCHANGED <<ovars, xvars>>

\* Line 192: remove the temporary pipe/file.
CloseCleanup ==
    /\ drv.pc = "c_cleanup"
    /\ drv' = [drv EXCEPT !.ipc = "removed", !.pc = "c_raise"]
    /\ UNCHANGED <<sub, thr, obs>>
    /\ UNCHANGED <<ovars, xvars>>

\* Lines 193-196: raise SolverSubprocessError for a return code other than
\* 0, resetting the return code so that the error is raised once.
CloseFinish ==
    /\ drv.pc = "c_raise"
    /\ IF drv.returncode # <<0>>
       THEN /\ drv' = [ReturnDrv(drv) EXCEPT !.returncode = <<0>>]
            /\ obs' = [ReturnObs(obs, "SolverSubprocessError") EXCEPT
                          !.classified = "error", !.solverErrs = @ + 1,
                          !.errObj = <<[returncode |-> drv.returncode,
                                        stderr |-> thr.data,
                                        joined |-> (thr.pc = "done")]>>]
       ELSE /\ drv' = ReturnDrv(drv)
            /\ obs' = [ReturnObs(obs, "none") EXCEPT !.classified = "ok"]
    /\ UNCHANGED <<sub, thr>>
    /\ UNCHANGED <<ovars, xvars>>

(***************************************************************************)
(* The driver with its subprocess, thread and caller.                      *)
(***************************************************************************)
DNext ==
    \/ RunCreateIpc \/ RunWriteFile \/ RunPopen \/ RunOpenPipe \/ RunWriteChunk
    \/ RunFlushChunk \/ RunWriteRaises \/ RunWriteReturns \/ RunExitFlush
    \/ RunClosePipe \/ RunFail \/ RunConstruct
    \/ ProcOpenInput \/ ProcReadChunk \/ ProcReadEof \/ ProcEmitLine \/ ProcRecvAck
    \/ ProcCloseStdout \/ ProcExit \/ ProcOnSigterm \/ ProcWriteErr \/ ProcErrUnblock
    \/ ThreadRead \/ ThreadEof
    \/ CallerNext \/ CallerIterAgain \/ GenRead \/ GenWait
    \/ CallerClose \/ CallerDrop
    \/ CloseEnter \/ CloseWait \/ CloseStreams \/ CloseJoin \/ CloseCleanup \/ CloseFinish
    \/ TmpInputCollected

(***************************************************************************)
(* Output expressions (aspio/output.py).  An expression is a tuple whose   *)
(* first element names its class:                                          *)
(*   <<"Constant", value>>                                                 *)
(*   <<"Reference", name>>                                                 *)
(*   <<"Variable", name>>                                                  *)
(*   <<"ExprObject", constructor_name, args>>                              *)
(*   <<"ExprSet" | "ExprSequence" | "ExprDictionary", query,               *)
(*     subexpressions, ann>>                                               *)
(* subexpressions is <<content>>, <<content, index>> or <<content, key>>.  *)
(* ann holds the fields that exist once check() has run:                   *)
(* output_predicate, fixed_query_variables, captured_variables, index_pos. *)
(* A query is a sequence of literals <<predicate, arguments>>, an argument *)
(* being <<"Variable", name>> or <<"Constant", text>>.                     *)
(*                                                                         *)
(* Python values are tagged likewise: <<"int", n>>, <<"str", s>>,          *)
(* <<"tuple", seq>>, <<"frozenset", set>>, <<"list", seq>>,                *)
(* <<"dict", function>>.                                                   *)
(***************************************************************************)
Constant(value) == <<"Constant", value>>
Reference(name) == <<"Reference", name>>
Variable(name) == <<"Variable", name>>
ExprObject(constructor_name, args) == <<"ExprObject", constructor_name, args>>
NoAnn == [output_predicate |-> << >>, fixed_query_variables |-> << >>,
          captured_variables |-> << >>, index_pos |-> 0]
ExprSet(query, content) == <<"ExprSet", query, <<content>>, NoAnn>>
ExprSequence(query, content, index) == <<"ExprSequence", query, <<content, index>>, NoAnn>>
ExprDictionary(query, content, key) == <<"ExprDictionary", query, <<content, key>>, NoAnn>>

IsCollection(e) == e[1] \in {"ExprSet", "ExprSequence", "ExprDictionary"}

\* Sequence helpers.
RECURSIVE Concat(_)
Concat(seqs) == IF seqs = << >> THEN << >> ELSE Head(seqs) \o Concat(Tail(seqs))

Range(seq) == {seq[i] : i \in 1..Len(seq)}

\* seq without the later occurrences of an element.
RECURSIVE Dedup(_)
Dedup(seq) ==
    IF seq = << >> THEN << >>
    ELSE LET init == Dedup(SubSeq(seq, 1, Len(seq) - 1))
             last == seq[Len(seq)]
         IN IF last \in Range(init) THEN init ELSE Append(init, last)

IndexOf(seq, x) == CHOOSE i \in 1..Len(seq) : seq[i] = x /\ \A j \in 1..(i - 1) : seq[j] # x

\* asp.Query.variables / asp.Literal.variables: the variables of a query, in
\* the order of their occurrences.
QueryVariables(query) ==
    Concat([i \in 1..Len(query) |->
              LET args == query[i][2]
                  isVar(k) == args[k][1] = "Variable"
              IN [k \in 1..Cardinality({j \in 1..Len(args) : isVar(j)}) |->
                      args[CHOOSE j \in 1..Len(args) :
                              /\ isVar(j)
                              /\ Cardinality({m \in 1..j : isVar(m)}) = k][2]]])

\* Expr.variables: the names of the variable expressions used in an
\* expression and its subexpressions (not those occurring only in queries).
RECURSIVE ExprVariables(_)
ExprVariables(e) ==
    CASE e[1] = "Variable" -> <<e[2]>>
      [] e[1] = "ExprObject" -> Concat([i \in 1..Len(e[3]) |-> ExprVariables(e[3][i])])
      [] IsCollection(e) -> Concat([i \in 1..Len(e[3]) |-> ExprVariables(e[3][i])])
      [] OTHER -> << >>

IsError(x) == Len(x) = 1

\* tuple(S) for a Python set S: the elements once each, in the order in
\* which the set lists them.  The order belongs to the set object (its hash
\* table and the history of its insertions): two sets with the same
\* elements can list them differently, so every tuple made from a set is
\* any of these.
Orderings(S) == {q \in [1..Cardinality(S) -> S] : Range(q) = S}

FirstError(checked) ==
    IF \E i \in 1..Len(checked) : IsError(checked[i])
    THEN checked[CHOOSE i \in 1..Len(checked) :
                    IsError(checked[i]) /\ \A j \in 1..(i - 1) : ~IsError(checked[j])]
    ELSE << >>

\* Expr.check for every class: the possible outcomes, each the expression
\* with the fields of its collections computed, or <<exception>>.  The
\* collection's second assert fails if a subexpression uses a variable that
\* is fixed.  path stands for id(self) in output_predicate
\* (ExprCollection.__init__): the place of the node under its top-level
\* name.  fixed_query_variables, the varying part of captured_variables and
\* the tuple added to bound_variables are each made from a Python set of
\* its own (lines 203, 209 and 215).
RECURSIVE Check(_, _, _)

\* The loop `for subexpr in ...: subexpr.check(...)` from the i-th
\* subexpression on: the outcomes in order, up to the first exception.
RECURSIVE CheckFrom(_, _, _, _)
CheckFrom(subs, path, bound_variables, i) ==
    IF i > Len(subs) THEN {<< >>}
    ELSE UNION {IF IsError(first) THEN {<<first>>}
                ELSE {<<first>> \o rest :
                        rest \in CheckFrom(subs, path, bound_variables, i + 1)} :
                first \in Check(subs[i], Append(path, i), bound_variables)}

CheckAll(subs, path, bound_variables) == CheckFrom(subs, path, bound_variables, 1)

Check(e, path, bound_variables) ==
    CASE e[1] = "Variable" ->
            {IF e[2] \in Range(bound_variables) THEN e ELSE <<"UndefinedNameError">>}
      [] e[1] = "ExprObject" ->
            {IF FirstError(args) # << >> THEN FirstError(args)
             ELSE <<"ExprObject", e[2], args>> :
             args \in CheckAll(e[3], path, bound_variables)}
      [] IsCollection(e) ->
            LET query_variables == Range(QueryVariables(e[2]))
                fixed_set == query_variables \cap Range(bound_variables)
                used == query_variables \cap Range(ExprVariables(e))
                Checked(fixed, varying, subs) ==
                    LET captured == fixed \o varying
                    IN IF FirstError(subs) # << >> THEN FirstError(subs)
                       ELSE IF e[1] = "ExprSequence" /\ e[3][2][2] \notin Range(captured)
                       THEN <<"ValueError">>
                       ELSE <<e[1], e[2], subs,
                              [output_predicate |-> path,
                               fixed_query_variables |-> fixed,
                               captured_variables |-> captured,
                               index_pos |-> IF e[1] = "ExprSequence"
                                             THEN IndexOf(captured, e[3][2][2]) ELSE 0]>>
            IN IF used \cap fixed_set # {} THEN {<<"AssertionError">>}
               ELSE UNION {{Checked(fixed, varying, subs) :
                              subs \in CheckAll(e[3], path, bound_variables \o handed)} :
                           fixed \in Orderings(fixed_set),
                           varying \in Orderings(used \ fixed_set),
                           handed \in Orderings(query_variables)}
      [] OTHER -> {e}

\* ExprCollection.captured_predicates / additional_rules: the collections of
\* an expression, outermost first.
RECURSIVE Collections(_)
Collections(e) ==
    CASE e[1] = "ExprObject" -> Concat([i \in 1..Len(e[3]) |-> Collections(e[3][i])])
      [] IsCollection(e) -> <<e>> \o Concat([i \in 1..Len(e[3]) |-> Collections(e[3][i])])
      [] OTHER -> << >>

(***************************************************************************)
(* The raw answer set.  additional_rules adds, for every collection, the   *)
(* rule  output_predicate(captured_variables) :- query.  and the solver    *)
(* reports the tuples of output_predicate.  The facts of the program are a *)
(* function from predicate names to sequences of tuples of terms, a term   *)
(* being the text the program has for it: a and "a" are different terms    *)
(* for the solver, and a constant of a query is the text the rule has for  *)
(* it (asp.py, lines 26-37).  The answer set lists the tuples of a         *)
(* predicate in the order in which the solver printed them, each once,     *)
(* with the terms as parse_answer_set returns them: without their quotes.  *)
(***************************************************************************)
EmptyVa == [v \in {} |-> ""]

\* The texts that occur between quotes in the terms of the model, and
\* asp.quote for them (none holds a quote or a backslash).
QuotableTexts == {"a", "b", "abc", "0", "1", "2", "3", "5", "6"}
QuotedText(text) == "\"" \o text \o "\""

\* parse_answer_set on one term: a quoted string comes back without its
\* quotes, any other term as it is.
Unquoted(term) ==
    IF \E text \in QuotableTexts : term = QuotedText(text)
    THEN CHOOSE text \in QuotableTexts : term = QuotedText(text)
    ELSE term

\* The assignment that extends va so that the literal matches the tuple,
\* or << "nomatch" >>.
RECURSIVE MatchArgs(_, _, _)
MatchArgs(args, tuple, va) ==
    IF args = << >> THEN <<"match", va>>
    ELSE LET a == Head(args)
             t == Head(tuple)
         IN IF a[1] = "Constant"
            THEN IF a[2] = t THEN MatchArgs(Tail(args), Tail(tuple), va) ELSE <<"nomatch">>
            ELSE IF a[2] \in DOMAIN va
                 THEN IF va[a[2]] = t THEN MatchArgs(Tail(args), Tail(tuple), va)
                      ELSE <<"nomatch">>
                 ELSE MatchArgs(Tail(args), Tail(tuple), (a[2] :> t) @@ va)

FactsOf(facts, predicate) == IF predicate \in DOMAIN facts THEN facts[predicate] ELSE << >>

\* The assignments that satisfy the query, literal by literal.
RECURSIVE Solutions(_, _, _)
Solutions(query, facts, vas) ==
    IF query = << >> THEN vas
    ELSE LET lit == Head(query)
             tuples == SelectSeq(FactsOf(facts, lit[1]), LAMBDA t : Len(t) = Len(lit[2]))
             extend(va) ==
                 LET ms == [i \in 1..Len(tuples) |-> MatchArgs(lit[2], tuples[i], va)]
                     ok == SelectSeq(ms, LAMBDA m : m[1] = "match")
                 IN [i \in 1..Len(ok) |-> ok[i][2]]
         IN Solutions(Tail(query), facts, Concat([i \in 1..Len(vas) |-> extend(vas[i])]))

\* The tuples of a collection's output_predicate in the answer set.
CapturedTuples(coll, facts) ==
    LET sols == Solutions(coll[2], facts, <<EmptyVa>>)
        cv == coll[4].captured_variables
        tuples == Dedup([i \in 1..Len(sols) |-> [k \in 1..Len(cv) |-> sols[i][cv[k]]]])
    IN [i \in 1..Len(tuples) |-> [k \in 1..Len(cv) |-> Unquoted(tuples[i][k])]]

\* The top-level names an OutputSpec may define, in a fixed order, and a name
\* that no OutputSpec defines.
TopNames == <<"x", "y", "z">>
UndefinedName == "u"

\* The answer set of the program extended by the additional rules of the
\* top-level expressions: output_predicate -> tuples.
RawAnswerSet(toplevel, facts) ==
    LET colls == Concat([i \in 1..Len(TopNames) |->
                           IF TopNames[i] \in DOMAIN toplevel
                           THEN Collections(toplevel[TopNames[i]]) ELSE << >>])
    IN [pred \in {colls[i][4].output_predicate : i \in 1..Len(colls)} |->
            CapturedTuples(colls[CHOOSE i \in 1..Len(colls) :
                                    colls[i][4].output_predicate = pred], facts)]

(***************************************************************************)
(* OutputResult (output.py, lines 15-36) and the evaluation of             *)
(* expressions.  res is the OutputResult: toplevel, answer_set,            *)
(* has_answer_set (FALSE once `del self.answer_set` has run) and objs.     *)
(* stk is the call stack of get_object / evaluate activations, innermost   *)
(* last; ctl says what the machine does next: <<"idle">> before the first  *)
(* call, <<"call">> when the innermost activation runs, <<"return", v>>    *)
(* when a value is handed to the innermost activation (or to the caller if *)
(* stk is empty) and <<"raise", exc>> when an exception has reached the    *)
(* caller.  Nothing in output.py catches an exception, so raising empties  *)
(* the stack.  out records what the caller has seen.                       *)
(***************************************************************************)
\* OutputResult.__object_is_being_mapped
Sentinel == <<"sentinel">>

\* Bounds of the answer sets: the facts p(C, I) of the program.
MaxFacts == 2
FactContents == {"a"}
FactIndices == {"0", "1"}

FactTuples == {<<c, i>> : c \in FactContents, i \in FactIndices}

\* The sequences of at most n distinct elements of S.
RECURSIVE DistinctSeqs(_, _)
DistinctSeqs(S, n) ==
    IF n = 0 THEN {<< >>}
    ELSE LET shorter == DistinctSeqs(S, n - 1)
         IN shorter \cup UNION {{Append(q, t) : t \in S \ Range(q)} :
                                    q \in {r \in shorter : Len(r) = n - 1}}

FactChoices == DistinctSeqs(FactTuples, MaxFacts)

\* The sequences that list every element of S once.
Orders(S) == {q \in DistinctSeqs(S, Cardinality(S)) : Len(q) = Cardinality(S)}

\* The expressions given to the top-level names.
QueryP(a, b) == << <<"p", <<Variable(a), Variable(b)>>>> >>
SetP == ExprSet(QueryP("X", "I"), Variable("X"))
SequenceP == ExprSequence(QueryP("X", "I"), Variable("X"), Variable("I"))
DictionaryP == ExprDictionary(QueryP("X", "I"), Variable("I"), Variable("X"))

Targets == Range(TopNames) \cup {UndefinedName}

\* Objects with a named constructor: int and builtins.len are resolved and
\* called, builtins is a module (not callable), m cannot be imported and
\* the empty name makes import_module raise.
NamedObjects ==
    {ExprObject(<<"int">>, <<Reference("y")>>),
     ExprObject(<<"builtins", "len">>, <<Reference("y")>>),
     ExprSet(QueryP("X", "I"), ExprObject(<<"builtins", "int">>, <<Variable("I")>>)),
     ExprObject(<<"builtins">>, <<Reference("y")>>),
     ExprObject(<<"m", "f">>, <<Reference("y")>>),
     ExprObject(<<"">>, <<Reference("y")>>)}

\* x is given any of ExprChoices, y any of SecondExprChoices (which refer
\* back to x), and z is absent or a constant.
ExprChoices ==
    {Constant(<<"int", 1>>), SetP, SequenceP, DictionaryP}
    \cup NamedObjects
    \cup {Reference(t) : t \in Targets}
    \cup {ExprObject(None, <<Reference(a), Reference(b)>>) : a \in Targets, b \in {"x", "y"}}
    \cup {ExprObject(None, <<Reference(a), SequenceP>>) : a \in Targets}
    \cup {ExprSet(QueryP("X", "I"), ExprObject(None, <<Variable("X"), Reference(a)>>)) : a \in Targets}

SecondExprChoices ==
    {Constant(<<"int", 1>>), SequenceP}
    \cup {Reference(t) : t \in Targets}
    \cup {ExprObject(None, <<Reference(a), Reference("x")>>) : a \in {"z", UndefinedName}}
    \cup {ExprObject(None, <<Reference("x"), SequenceP>>)}
    \cup {ExprSet(QueryP("X", "I"), ExprObject(None, <<Variable("X"), Reference("x")>>))}

LastExprChoices == {Constant(<<"int", 1>>)}

\* OutputSpec.__init__ on the (name, expression) pairs named_exprs: the
\* possible outcomes, each <<"OutputSpec", exprs>> with the checked
\* expressions by name, or <<exception>>: RedefinedNameError for a name
\* given twice, else the exception of the first check that raises.
RECURSIVE CheckExprs(_, _)
CheckExprs(named_exprs, exprs) ==
    IF named_exprs = << >> THEN {<<"OutputSpec", exprs>>}
    ELSE LET name == Head(named_exprs)[1]
         IN UNION {IF IsError(checked) THEN {checked}
                   ELSE CheckExprs(Tail(named_exprs), (name :> checked) @@ exprs) :
                   checked \in Check(Head(named_exprs)[2], <<name>>, << >>)}

OutputSpecOf(named_exprs) ==
    IF \E i, j \in 1..Len(named_exprs) : i < j /\ named_exprs[i][1] = named_exprs[j][1]
    THEN {<<"RedefinedNameError">>}
    ELSE CheckExprs(named_exprs, EmptyVa)

\* The OutputSpecs that were constructed: the exprs of the outcomes that are
\* no exception.
OutputSpecs(named_exprs) == {spec[2] : spec \in {o \in OutputSpecOf(named_exprs) : ~IsError(o)}}

OInit ==
    \E ex \in ExprChoices, ey \in SecondExprChoices, facts \in FactChoices :
      \E named_exprs \in {<< <<"x", ex>>, <<"y", ey>> >>}
                         \cup {<< <<"x", ex>>, <<"y", ey>>, <<"z", ez>> >> :
                                 ez \in LastExprChoices} :
       \E toplevel \in OutputSpecs(named_exprs) :
        /\ res = [toplevel |-> toplevel,
                  answer_set |-> RawAnswerSet(toplevel, [p \in {"p"} |-> facts]),
                  has_answer_set |-> TRUE,
                  objs |-> EmptyVa]
        /\ stk = << >>
        /\ ctl = <<"idle">>
        /\ out = [name |-> "", first |-> [n \in Targets |-> "none"]]

\* Activations.  pc, todo, acc and key are the locals of a collection's or
\* an object's evaluate: the captured tuples still to visit, the results so
\* far and the key of the dictionary entry being built.
GetFrame(name) ==
    [kind |-> "get_object", name |-> name, expr |-> << >>, va |-> EmptyVa,
     pc |-> "enter", todo |-> << >>, acc |-> << >>, key |-> << >>]
EvalFrame(expr, va) ==
    [kind |-> "evaluate", name |-> "", expr |-> expr, va |-> va,
     pc |-> "enter", todo |-> << >>, acc |-> << >>, key |-> << >>]

Top == stk[Len(stk)]
Rest == SubSeq(stk, 1, Len(stk) - 1)

Running(kind) == stk # << >> /\ Top.kind = kind
Evaluating(class) == Running("evaluate") /\ Top.expr[1] = class

\* What the caller sees of its get: the first outcome per name is kept.
Seen(outcome) ==
    [out EXCEPT !.first[out.name] = IF @ = "none" THEN outcome ELSE @]

Return(v, rest) ==
    /\ stk' = rest
    /\ ctl' = <<"return", v>>
    /\ out' = IF rest = << >> THEN Seen("value") ELSE out

Raise(exc) ==
    /\ stk' = << >>
    /\ ctl' = <<"raise", exc>>
    /\ out' = Seen(exc)

Call(frames) ==
    /\ stk' = frames
    /\ ctl' = <<"call">>
    /\ out' = out

\* The caller dereferences a name on the Result.
CallerGet ==
    /\ UNCHANGED <<dvars, xvars>>
    /\ \E name \in Targets :
        /\ stk = << >>
        /\ stk' = <<GetFrame(name)>>
        /\ ctl' = <<"call">>
        /\ out' = [out EXCEPT !.name = name]
        /\ UNCHANGED res

\* OutputResult.get_object up to the call of evaluate, or to its end if
\* the name is in objs already.
GetObjectEnter_Reevaluate ==
    /\ Running("get_object") /\ ctl = <<"call">>
    /\ LET name == Top.name
       IN IF name \notin DOMAIN res.objs \/ res.objs[name] # Sentinel
          THEN IF name \notin DOMAIN res.toplevel
               THEN Raise("UndefinedNameError") /\ UNCHANGED res
               ELSE /\ res' = [res EXCEPT !.objs = (name :> Sentinel) @@ @]
                    /\ Call(Rest \o <<[Top EXCEPT !.pc = "evaluate"],
                                      EvalFrame(res.toplevel[name], EmptyVa)>>)
          ELSE /\ UNCHANGED res
               /\ IF res.objs[name] = Sentinel
                  THEN Raise("CircularReferenceError")
                  ELSE Return(res.objs[name], Rest)
    /\ UNCHANGED <<dvars, xvars>>

GetObjectEnter ==
    /\ Running("get_object") /\ ctl = <<"call">>
    /\ LET name == Top.name
       IN IF name \notin DOMAIN res.objs
          THEN IF name \notin DOMAIN res.toplevel
               THEN Raise("UndefinedNameError") /\ UNCHANGED res
               ELSE /\ res' = [res EXCEPT !.objs = (name :> Sentinel) @@ @]
                    /\ Call(Rest \o <<[Top EXCEPT !.pc = "evaluate"],
                                      EvalFrame(res.toplevel[name], EmptyVa)>>)
          ELSE /\ UNCHANGED res
               /\ IF res.objs[name] = Sentinel
                  THEN Raise("CircularReferenceError")
                  ELSE Return(res.objs[name], Rest)
    /\ UNCHANGED <<dvars, xvars>>

\* OutputResult.get_object from the return of evaluate: the value is
\* stored, the answer set is deleted if objs has an entry for every
\* top-level name, and the stored value is returned.
GetObjectStore ==
    /\ Running("get_object") /\ ctl[1] = "return"
    /\ LET name == Top.name
           objs == (name :> ctl[2]) @@ res.objs
           all == Cardinality(DOMAIN res.toplevel) = Cardinality(DOMAIN objs)
       IN /\ res' = [res EXCEPT !.objs = objs,
                                !.has_answer_set = IF all THEN FALSE ELSE @]
          /\ IF all /\ ~res.has_answer_set
             THEN Raise("AttributeError")
             ELSE IF objs[name] = Sentinel
                  THEN Raise("CircularReferenceError")
                  ELSE Return(objs[name], Rest)
    /\ UNCHANGED <<dvars, xvars>>

\* Constant.evaluate
EvalConstant ==
    /\ Evaluating("Constant") /\ ctl = <<"call">>
    /\ Return(Top.expr[2], Rest)
    /\ UNCHANGED res
    /\ UNCHANGED <<dvars, xvars>>

\* Reference.evaluate returns what get_object returns: its activation is
\* replaced by the one of get_object.
EvalReference_NoDereference ==
    /\ Evaluating("Reference") /\ ctl = <<"call">>
    /\ Return(<<"str", Top.expr[2]>>, Rest)
    /\ UNCHANGED res
    /\ UNCHANGED <<dvars, xvars>>

EvalReference ==
    /\ Evaluating("Reference") /\ ctl = <<"call">>
    /\ Call(Append(Rest, GetFrame(Top.expr[2])))
    /\ UNCHANGED res
    /\ UNCHANGED <<dvars, xvars>>

\* Variable.evaluate
EvalVariable ==
    /\ Evaluating("Variable") /\ ctl = <<"call">>
    /\ IF Top.expr[2] \in DOMAIN Top.va
       THEN Return(<<"str", Top.va[Top.expr[2]]>>, Rest)
       ELSE Raise("AssertionError")
    /\ UNCHANGED res
    /\ UNCHANGED <<dvars, xvars>>

\* int(str_value) for the strings of the answer sets.
IntStrings == <<"0", "1", "2", "3", "4", "5", "6", "7", "8", "9">>
IsIntString(str) == str \in Range(IntStrings)
IntOf(str) == IndexOf(IntStrings, str) - 1

\* The digits of the texts of the model, as int() reads them with a base.
DigitValues(str) ==
    CASE IsIntString(str) -> <<IntOf(str)>>
      [] str = "a" -> <<10>>
      [] str = "b" -> <<11>>
      [] str = "abc" -> <<10, 11, 12>>
      [] OTHER -> << >>

RECURSIVE PositionalValue(_, _)
PositionalValue(digits, base) ==
    IF digits = << >> THEN 0
    ELSE PositionalValue(SubSeq(digits, 1, Len(digits) - 1), base) * base
             + digits[Len(digits)]

\* int(str, base) for the texts of the model; base 0 reads them as decimal
\* literals.
IntOfText(str, base) ==
    LET digits == DigitValues(str)
        b == IF base = 0 THEN 10 ELSE base
    IN IF digits # << >> /\ \A i \in 1..Len(digits) : digits[i] < b
       THEN <<"int", PositionalValue(digits, b)>>
       ELSE <<"ValueError">>

\* A constructor name is the sequence of its parts, name.split('.'): int is
\* <<"int">>, builtins.len is <<"builtins", "len">> and the empty name is
\* <<"">>.  None stands for the tuple constructor.
\*
\* Registry._registered_names of a new Registry.
Registered == {"int"}

\* importlib.import_module(toplevel) where builtins is the module that can
\* be imported: the module, or <<exception>>.
Modules == {"builtins"}
ImportModule(toplevel) ==
    CASE toplevel = "" -> <<"ValueError">>
      [] toplevel \in Modules -> <<"module", toplevel>>
      [] OTHER -> <<"ImportError">>

\* getattr(obj, part) for the attributes that the names of the model reach:
\* the functions int and len of builtins and the __name__ of a module or a
\* function, which is a str.
GetAttr(obj, part) ==
    CASE obj = <<"module", "builtins">> /\ part \in {"int", "len"} -> <<"constructor", part>>
      [] obj[1] \in {"module", "constructor"} /\ part = "__name__" -> <<"str", obj[2]>>
      [] OTHER -> <<"AttributeError">>

\* The loop over the parts after the first: the object, or None after an
\* AttributeError.
RECURSIVE GetAttrs(_, _)
GetAttrs(obj, parts) ==
    IF parts = << >> THEN obj
    ELSE IF GetAttr(obj, Head(parts)) = <<"AttributeError">> THEN None
    ELSE GetAttrs(GetAttr(obj, Head(parts)), Tail(parts))

\* The object of the leftmost part: registered, or imported as a module;
\* None after an ImportError.
ResolveToplevel(toplevel, imported) ==
    IF toplevel \in Registered THEN <<"constructor", toplevel>>
    ELSE IF imported = <<"ImportError">> THEN None
    ELSE imported

\* callable(obj), found being a resolved object or None.
CallableOrNone(found) ==
    IF found # None /\ found[1] = "constructor" THEN found ELSE None

\* Registry.resolve (registry.py, lines 100-123): the leftmost part of the
\* name is looked up in the registry or imported as a module, the other
\* parts are attributes.  The result is the constructor, None when nothing
\* callable is found, or <<exception>>: import_module raises ValueError for
\* the empty name.
ResolveFrom(obj, parts) ==
    IF obj = None \/ IsError(obj) THEN obj ELSE CallableOrNone(GetAttrs(obj, parts))

Resolve(name) ==
    ResolveFrom(ResolveToplevel(Head(name), ImportModule(Head(name))), Tail(name))

\* int(*args) for the values of the model: a value, or <<exception>>.  The
\* base is looked at before the first argument.
IntConstructor(args) ==
    CASE Len(args) = 0 -> <<"int", 0>>
      [] Len(args) = 1 ->
            CASE args[1][1] = "int" -> args[1]
              [] args[1][1] = "str" -> IntOfText(args[1][2], 10)
              [] OTHER -> <<"TypeError">>
      [] Len(args) = 2 ->
            IF args[2][1] # "int" THEN <<"TypeError">>
            ELSE IF args[2][2] \notin ({0} \cup (2..36)) THEN <<"ValueError">>
            ELSE IF args[1][1] # "str" THEN <<"TypeError">>
            ELSE IntOfText(args[1][2], args[2][2])
      [] OTHER -> <<"TypeError">>

\* len(*args) for the values of the model: a value, or <<exception>>.
LenBuiltin(args) ==
    IF Len(args) # 1 THEN <<"TypeError">>
    ELSE CASE args[1][1] = "str" -> <<"int", Len(args[1][2])>>
           [] args[1][1] \in {"tuple", "list"} -> <<"int", Len(args[1][2])>>
           [] args[1][1] = "frozenset" -> <<"int", Cardinality(args[1][2])>>
           [] args[1][1] = "dict" -> <<"int", Cardinality(DOMAIN args[1][2])>>
           [] OTHER -> <<"TypeError">>

\* constructor(*mapped_args) for a resolved constructor: a value, or
\* <<exception>>.
Construct(constructor, args) ==
    CASE constructor[2] = "int" -> IntConstructor(args)
      [] constructor[2] = "len" -> LenBuiltin(args)

\* ExprObject.evaluate: the arguments are evaluated from left to right and
\* handed to the constructor; without a constructor name the registry's
\* tuple_constructor (tuple) is used.
Made(made, rest) == IF IsError(made) THEN Raise(made[1]) ELSE Return(made, rest)

ObjectNext(frame) ==
    IF Len(frame.acc) < Len(frame.expr[3])
    THEN Call(Rest \o <<frame, EvalFrame(frame.expr[3][Len(frame.acc) + 1], frame.va)>>)
    ELSE IF frame.expr[2] = None
    THEN Return(<<"tuple", frame.acc>>, Rest)
    ELSE Made(Construct(Resolve(frame.expr[2]), frame.acc), Rest)

\* The constructor is resolved before the first argument is evaluated.
EvalObjectCall ==
    /\ Evaluating("ExprObject") /\ ctl = <<"call">>
    /\ IF Top.expr[2] # None /\ Resolve(Top.expr[2]) = None
       THEN Raise("NotImplementedError")
       ELSE IF Top.expr[2] # None /\ IsError(Resolve(Top.expr[2]))
       THEN Raise(Resolve(Top.expr[2])[1])
       ELSE ObjectNext([Top EXCEPT !.pc = "args"])
    /\ UNCHANGED res
    /\ UNCHANGED <<dvars, xvars>>

EvalObjectArg ==
    /\ Evaluating("ExprObject") /\ ctl[1] = "return"
    /\ ObjectNext([Top EXCEPT !.acc = Append(@, ctl[2])])
    /\ UNCHANGED res
    /\ UNCHANGED <<dvars, xvars>>

\* hash(v) succeeds: lists and dicts are unhashable, a tuple is hashable if
\* its elements are.
RECURSIVE Hashable(_)
Hashable(v) ==
    CASE v[1] \in {"list", "dict"} -> FALSE
      [] v[1] = "tuple" -> \A i \in 1..Len(v[2]) : Hashable(v[2][i])
      [] OTHER -> TRUE

CapturedValues_Unfiltered(coll, va) ==
    LET pred == coll[4].output_predicate
    IN IF pred \in DOMAIN res.answer_set THEN res.answer_set[pred] ELSE << >>

\* ExprCollection.get_captured_values: the tuples of the output predicate
\* that agree with va on the fixed variables.
CapturedValues(coll, va) ==
    LET pred == coll[4].output_predicate
        fixed == coll[4].fixed_query_variables
        tuples == IF pred \in DOMAIN res.answer_set THEN res.answer_set[pred] ELSE << >>
    IN SelectSeq(tuples, LAMBDA t : \A i \in 1..Len(fixed) :
                                       fixed[i] \in DOMAIN va /\ va[fixed[i]] = t[i])

\* get_captured_values compares the fixed variables of a tuple in order
\* and leaves the tuple at the first that differs (lines 221-223): it
\* raises KeyError at a tuple that agrees with lc.va on every fixed
\* variable before the first one that has no value in lc.va.  No tuple is
\* yielded before that: yielding one takes a value for every fixed variable.
CapturedValuesKeyError(coll, va) ==
    LET pred == coll[4].output_predicate
        fixed == coll[4].fixed_query_variables
        unassigned == {i \in 1..Len(fixed) : fixed[i] \notin DOMAIN va}
    IN /\ pred \in DOMAIN res.answer_set
       /\ unassigned # {}
       /\ LET first == CHOOSE i \in unassigned : \A j \in unassigned : i <= j
          IN \E k \in 1..Len(res.answer_set[pred]) :
                \A i \in 1..(first - 1) : va[fixed[i]] = res.answer_set[pred][k][i]

\* ExprCollection.eval_subexpression / LocalContext.assign_variables: the
\* assignment in which a subexpression is evaluated for a captured tuple,
\* or <<"AssertionError">>.
AssignVariables(coll, va, captured_values) ==
    LET cv == coll[4].captured_variables
        i == Len(coll[4].fixed_query_variables)
    IN IF Len(cv) # Len(captured_values) \/ \E k \in (i + 1)..Len(cv) : cv[k] \in DOMAIN va
       THEN <<"AssertionError">>
       ELSE <<"va", [v \in DOMAIN va \cup {cv[k] : k \in (i + 1)..Len(cv)} |->
                        IF v \in DOMAIN va THEN va[v]
                        ELSE captured_values[IndexOf(cv, v)]]>>

\* The value a collection returns once every captured tuple has been
\* visited: frozenset, list (ordered by index) or dict.
CollectionValue_CapturedOrder(frame) ==
    CASE frame.expr[1] = "ExprSet" -> <<"frozenset", Range(frame.acc)>>
      [] frame.expr[1] = "ExprSequence" ->
            <<"list", [i \in 1..Len(frame.acc) |-> frame.acc[i][2]]>>
      [] frame.expr[1] = "ExprDictionary" ->
            <<"dict", [k \in {frame.acc[j][1] : j \in 1..Len(frame.acc)} |->
                          frame.acc[CHOOSE j \in 1..Len(frame.acc) : frame.acc[j][1] = k][2]]>>

CollectionValue(frame) ==
    CASE frame.expr[1] = "ExprSet" -> <<"frozenset", Range(frame.acc)>>
      [] frame.expr[1] = "ExprSequence" ->
            <<"list", [i \in 1..Len(frame.acc) |->
                          frame.acc[CHOOSE j \in 1..Len(frame.acc) : frame.acc[j][1] = i - 1][2]]>>
      [] frame.expr[1] = "ExprDictionary" ->
            <<"dict", [k \in {frame.acc[j][1] : j \in 1..Len(frame.acc)} |->
                          frame.acc[CHOOSE j \in 1..Len(frame.acc) : frame.acc[j][1] = k][2]]>>

\* The next step of a collection's loop: evaluate a subexpression for the
\* next captured tuple, or return the collection.
CollectionNext(frame) ==
    IF frame.todo = << >>
    THEN Return(CollectionValue(frame), Rest)
    ELSE LET assigned == AssignVariables(frame.expr, frame.va, Head(frame.todo))
             subexpr == IF frame.pc = "key" THEN frame.expr[3][2] ELSE frame.expr[3][1]
         IN IF assigned[1] = "AssertionError"
            THEN Raise("AssertionError")
            ELSE Call(Rest \o <<frame, EvalFrame(subexpr, assigned[2])>>)

\* ExprSet.evaluate, ExprSequence.evaluate and ExprDictionary.evaluate up
\* to the evaluation of the first subexpression.  The sequence checks its
\* indices before it evaluates any content.
EvalCollectionCall ==
    /\ stk # << >> /\ Top.kind = "evaluate" /\ IsCollection(Top.expr) /\ ctl = <<"call">>
    /\ UNCHANGED res
    /\ IF ~res.has_answer_set
       THEN Raise("AttributeError")
       ELSE IF CapturedValuesKeyError(Top.expr, Top.va)
       THEN Raise("KeyError")
       ELSE LET cvs == CapturedValues(Top.expr, Top.va)
                pos == Top.expr[4].index_pos
                indices == [i \in 1..Len(cvs) |-> cvs[i][pos]]
            IN IF Top.expr[1] = "ExprSequence"
                  /\ (\/ \E i \in 1..Len(cvs) : ~IsIntString(indices[i])
                      \/ \E n \in 0..(Len(cvs) - 1) :
                            Cardinality({i \in 1..Len(cvs) : IntOf(indices[i]) = n}) # 1)
               THEN Raise("InvalidIndicesError")
               ELSE CollectionNext([Top EXCEPT
                        !.todo = cvs,
                        !.pc = IF Top.expr[1] = "ExprDictionary" THEN "key" ELSE "content"])
    /\ UNCHANGED <<dvars, xvars>>

EvalCollectionItem_Overwrite ==
    /\ stk # << >> /\ Top.kind = "evaluate" /\ IsCollection(Top.expr) /\ ctl[1] = "return"
    /\ UNCHANGED res
    /\ LET v == ctl[2]
       IN CASE Top.expr[1] = "ExprSet" ->
                  IF ~Hashable(v) THEN Raise("TypeError")
                  ELSE CollectionNext([Top EXCEPT !.acc = Append(@, v), !.todo = Tail(@)])
            [] Top.expr[1] = "ExprSequence" ->
                  CollectionNext([Top EXCEPT
                      !.acc = Append(@, <<IntOf(Head(Top.todo)[Top.expr[4].index_pos]), v>>),
                      !.todo = Tail(@)])
            [] Top.expr[1] = "ExprDictionary" /\ Top.pc = "key" ->
                  IF ~Hashable(v) THEN Raise("TypeError")
                  ELSE CollectionNext([Top EXCEPT !.key = v, !.pc = "content"])
            [] Top.expr[1] = "ExprDictionary" /\ Top.pc = "content" ->
                  CollectionNext([Top EXCEPT !.acc = Append(@, <<Top.key, v>>),
                                             !.todo = Tail(@), !.pc = "key"])
    /\ UNCHANGED <<dvars, xvars>>

\* The same from the return of a subexpression's evaluation.
EvalCollectionItem ==
    /\ stk # << >> /\ Top.kind = "evaluate" /\ IsCollection(Top.expr) /\ ctl[1] = "return"
    /\ UNCHANGED res
    /\ LET v == ctl[2]
       IN CASE Top.expr[1] = "ExprSet" ->
                  IF ~Hashable(v) THEN Raise("TypeError")
                  ELSE CollectionNext([Top EXCEPT !.acc = Append(@, v), !.todo = Tail(@)])
            [] Top.expr[1] = "ExprSequence" ->
                  CollectionNext([Top EXCEPT
                      !.acc = Append(@, <<IntOf(Head(Top.todo)[Top.expr[4].index_pos]), v>>),
                      !.todo = Tail(@)])
            [] Top.expr[1] = "ExprDictionary" /\ Top.pc = "key" ->
                  IF ~Hashable(v) THEN Raise("TypeError")
                  ELSE IF \E j \in 1..Len(Top.acc) : Top.acc[j][1] = v
                  THEN Raise("DuplicateKeyError")
                  ELSE CollectionNext([Top EXCEPT !.key = v, !.pc = "content"])
            [] Top.expr[1] = "ExprDictionary" /\ Top.pc = "content" ->
                  CollectionNext([Top EXCEPT !.acc = Append(@, <<Top.key, v>>),
                                             !.todo = Tail(@), !.pc = "key"])
    /\ UNCHANGED <<dvars, xvars>>

ONext ==
    \/ CallerGet
    \/ GetObjectEnter
    \/ GetObjectStore
    \/ EvalConstant
    \/ EvalReference
    \/ EvalVariable
    \/ EvalObjectCall
    \/ EvalObjectArg
    \/ EvalCollectionCall
    \/ EvalCollectionItem

(***************************************************************************)
(* Specifications.  Spec is the protocol driver with one subprocess;       *)
(* SpecOutput is one OutputResult and the gets of its caller.  Each leaves *)
(* the other's variables alone.                                            *)
(***************************************************************************)
OIdle ==
    /\ res = [toplevel |-> EmptyVa, answer_set |-> EmptyVa,
              has_answer_set |-> TRUE, objs |-> EmptyVa]
    /\ stk = << >>
    /\ ctl = <<"idle">>
    /\ out = [name |-> "", first |-> [n \in Targets |-> "none"]]

\* No InputSpec, no fact on the wire and no CachingIterable is in use.
IIdle == inp = [pc |-> "none"]
WIdle == wire = [pc |-> "none"]
CIdle == cit = [pc |-> "none"]
XIdle == IIdle /\ WIdle /\ CIdle

Init == DInit /\ OIdle /\ XIdle
Next == DNext
Spec == Init /\ [][Next]_vars

InitOutput == OInit /\ DInit /\ XIdle
NextOutput == ONext
SpecOutput == InitOutput /\ [][NextOutput]_vars

(***************************************************************************)
(* Claims about the protocol driver.                                       *)
(***************************************************************************)
\* Return codes that cleanup treats as success after a termination it asked for.
BenignRc == {0, ExitOnTerm, -SIGTERM, -SIGKILL, -SIGABRT}

\* C1: an acknowledgement is written only after a line has been yielded and
\* the caller has asked for the next element: acknowledgements never exceed
\* the lines yielded, the k-th acknowledgement needs more than k next()
\* calls, and the subprocess has printed at most one line more than it was
\* acknowledged.
C1_AckOnlyAfterYieldAndRequest ==
    /\ obs.acks <= obs.yielded
    /\ (obs.acks = 0 \/ obs.acks < obs.nextCalls)
    /\ sub.emitted <= obs.acks + 1

C1_Witness == obs.acks >= 1 /\ obs.yielded >= 2 /\ sub.emitted = 2

\* C2: with a named pipe write_input is invoked only once the subprocess has
\* been started; with a temporary file the subprocess is started only after
\* write_input has returned and the file has been closed.
C2_InputOrdering ==
    /\ (drv.mode = "pipe" /\ obs.wiCalled) => obs.startedBeforeWrite
    /\ (drv.mode = "file" /\ sub.state # "none") =>
           (obs.wiReturned /\ obs.fileClosed /\ ~obs.startedBeforeWrite)

C2_Witness == drv.mode = "file" /\ sub.state = "running" /\ obs.wiReturned

\* C3 (as claimed): when the subprocess has ended by itself with a return
\* code other than 0, run() has not raised, and an iteration the caller
\* carried to its end (without calling close() itself) ended with
\* SolverSubprocessError.
C3_OwnFailureRaisedWhileIterating ==
    (sub.state = "exited" /\ sub.ownExit /\ sub.rc # 0) =>
        /\ obs.runExc = "none"
        /\ (obs.iterExc \notin {"none", "dropped"} /\ obs.cleanupBy \in {"none", "iter"})
               => obs.iterExc = "SolverSubprocessError"

\* The request for cleanup made mid-iteration has returned to the caller.
MidCloseReturned == obs.midClose # "no" /\ drv.pc \in {"idle", "dropped"}

\* C4 (as claimed): close() or a dropped reference, mid-iteration with the
\* subprocess running, never raises and frees everything.
C4_MidCloseNeverRaises ==
    MidCloseReturned =>
        /\ obs.midCloseExc = "none"
        /\ sub.state = "exited"
        /\ drv.stdinClosed /\ drv.stdoutClosed
        /\ drv.ipc = "removed"
        /\ thr.pc = "done"

\* C4 (amended): close() or a dropped reference, mid-iteration with the
\* subprocess running, always leaves the subprocess ended, stdin and stdout
\* closed, tmp_input removed and the stderr thread finished.  A dropped
\* reference raises nothing.  close() raises exactly when the subprocess
\* ended by itself with a return code other than 0 after close() was called
\* and either before __close polled it or, after the poll, with a code
\* outside 2, -SIGTERM, -SIGKILL, -SIGABRT; it then raises
\* SolverSubprocessError.
C4_MidCloseFreesAndRaisesOnlyOwnFailure ==
    MidCloseReturned =>
        /\ sub.state = "exited"
        /\ drv.stdinClosed /\ drv.stdoutClosed
        /\ drv.ipc = "removed"
        /\ thr.pc = "done"
        /\ obs.midCloseExc \in {"none", "SolverSubprocessError"}
        /\ obs.midCloseExc = "SolverSubprocessError" <=>
               /\ obs.midClose = "close"
               /\ sub.ownExit /\ sub.rc # 0
               /\ (~drv.foundAlive \/ sub.rc \notin BenignRc)

C4_Witness ==
    /\ obs.midClose = "close" /\ drv.pc = "idle" /\ obs.midCloseExc = "none"
    /\ obs.yielded >= 1 /\ drv.foundAlive /\ sub.rc = -SIGKILL

\* C5: the cleanup sequence of __close is entered at most once, whatever
\* the sequence of close() calls, end of iteration and finalizer.
C5_CleanupAtMostOnce == obs.cleanupRuns <= 1

\* A further cleanup request arrives after the cleanup has run.
C5_Witness ==
    /\ drv.pc = "c_enter" /\ ~drv.finAlive /\ obs.cleanupRuns = 1
    /\ drv.invoker = "gc" /\ obs.cleanupBy = "close"

\* C6: the exit is classified as success exactly when the return code is 0,
\* or the driver found the subprocess running, asked it to terminate and the
\* return code is 2, -SIGTERM, -SIGKILL or -SIGABRT.
C6_ExitClassification ==
    obs.classified # "none" =>
        (obs.classified = "ok" <=>
            (sub.rc = 0 \/ (drv.foundAlive /\ sub.rc \in BenignRc)))

\* A subprocess that had ended with code 2 before cleanup started is an error.
C6_Witness == obs.classified = "error" /\ ~drv.foundAlive /\ sub.rc = ExitOnTerm

\* C7: SolverSubprocessError is raised exactly once when the exit is
\* classified as an error and never otherwise; it carries the subprocess's
\* return code and everything the subprocess wrote to stderr, the stderr
\* thread having been joined before.
C7_ErrorRaisedOnceWithCodeAndStderr ==
    /\ obs.solverErrs <= 1
    /\ (obs.classified = "error") <=> (obs.solverErrs = 1)
    /\ (obs.errObj # None) <=> (obs.solverErrs = 1)
    /\ obs.errObj # None =>
           /\ obs.errObj[1].returncode = <<sub.rc>>
           /\ obs.errObj[1].stderr = sub.errWritten
           /\ obs.errObj[1].joined

\* After the error was raised a further cleanup request is being served.
C7_Witness ==
    /\ obs.solverErrs = 1 /\ obs.errObj[1].stderr = MaxErr
    /\ drv.pc = "c_enter" /\ ~drv.finAlive

\* C8 (as claimed): the subprocess is never blocked on a write to stderr in
\* a state from which nothing can ever drain the pipe.
C8_StderrWriteNeverBlocksForever ==
    ~(sub.state = "running" /\ sub.pc = "errblocked" /\ ~ENABLED DNext)

(***************************************************************************)
(* Claims about the output result mapper (SpecOutput).                     *)
(***************************************************************************)
\* The memo state of a top-level name on the Result.
Memo(name) ==
    IF name \notin DOMAIN res.objs THEN "UNRESOLVED"
    ELSE IF res.objs[name] = Sentinel THEN "IN_PROGRESS"
    ELSE "RESOLVED"

Raised(control, exc) == control[1] = "raise" /\ control[2] = exc

\* A get of the caller has come back, with a value or an exception.
GetCompleted == stk = << >> /\ ctl[1] \in {"return", "raise"}

\* The steps C9 allows: per Result and per name the memo state only moves
\* UNRESOLVED -> IN_PROGRESS (in get_object of that name, before it evaluates) ->
\* RESOLVED (in get_object of that name, when evaluate has returned); a
\* RESOLVED entry keeps its value in every step, and a get_object that
\* finds its name IN_PROGRESS raises CircularReferenceError.
C9_MemoSteps ==
    /\ \A n \in Targets :
          \/ /\ Memo(n)' = Memo(n)
             /\ Memo(n) = "RESOLVED" => res'.objs[n] = res.objs[n]
          \/ /\ Memo(n) = "UNRESOLVED" /\ Memo(n)' = "IN_PROGRESS"
             /\ Running("get_object") /\ Top.name = n /\ ctl = <<"call">>
          \/ /\ Memo(n) = "IN_PROGRESS" /\ Memo(n)' = "RESOLVED"
             /\ Running("get_object") /\ Top.name = n /\ ctl[1] = "return"
    /\ (Running("get_object") /\ ctl = <<"call">> /\ Memo(Top.name) = "IN_PROGRESS")
          => (Raised(ctl', "CircularReferenceError") /\ stk' = << >>)

\* C9: every step of a Result is one of C9_MemoSteps: the memo state of a
\* name only advances UNRESOLVED -> IN_PROGRESS -> RESOLVED, a RESOLVED
\* entry is never changed or removed, and a get that observes IN_PROGRESS
\* raises CircularReferenceError.
C9_MemoOnlyAdvances == [][C9_MemoSteps]_vars

C9_Witness ==
    /\ GetCompleted /\ Raised(ctl, "CircularReferenceError")
    /\ Memo(out.name) = "IN_PROGRESS"
    /\ out.first[out.name] = "CircularReferenceError"
    /\ \E n \in Targets : Memo(n) = "RESOLVED" /\ out.first[n] = "value"

\* The names an expression refers to outside of collections: the
\* references that are followed whenever the expression is evaluated to
\* its end, whatever the answer set.
RECURSIVE ReferencedNames(_)
ReferencedNames(e) ==
    CASE e[1] = "Reference" -> {e[2]}
      [] e[1] = "ExprObject" -> UNION {ReferencedNames(e[3][i]) : i \in 1..Len(e[3])}
      [] OTHER -> {}

\* The names a top-level name refers to: as the expression itself or an
\* argument of its objects, or (direct) only as the expression itself.
References(n, direct) ==
    IF direct
    THEN IF res.toplevel[n][1] = "Reference" THEN {res.toplevel[n][2]} ELSE {}
    ELSE ReferencedNames(res.toplevel[n])

\* The names reached from the names of S in at least one and at most k
\* reference steps.
RECURSIVE Reached(_, _, _)
Reached(S, k, direct) ==
    LET next == UNION {References(n, direct) : n \in S \cap DOMAIN res.toplevel}
    IN IF k = 1 THEN next ELSE next \cup Reached(next, k - 1, direct)

\* n lies on a cycle of references between top-level names.
OnReferenceCycle(n) == n \in Reached({n}, Len(TopNames), FALSE)

\* n lies on a cycle of names each of which is defined as a reference to
\* the next (x = &y; y = &x).
OnDirectReferenceCycle(n) == n \in Reached({n}, Len(TopNames), TRUE)

\* C10 as stated: every get of a name on a reference cycle raises
\* CircularReferenceError, the first time and every later time.
C10_CycleGetRaisesCircular ==
    (GetCompleted /\ OnReferenceCycle(out.name))
        => Raised(ctl, "CircularReferenceError")

\* C10, amended: if the names of the cycle are defined as references to
\* each other (each name of the cycle is a reference to the next, as in
\* x = &y; y = &x), every get of a name on the cycle raises
\* CircularReferenceError, the first time and every later time, whichever
\* names were dereferenced before.
C10_DirectCycleGetRaisesCircular ==
    (GetCompleted /\ OnDirectReferenceCycle(out.name))
        => Raised(ctl, "CircularReferenceError")

C10_Witness ==
    /\ GetCompleted /\ Raised(ctl, "CircularReferenceError")
    /\ out.name = "y"
    /\ res.toplevel["x"] = Reference("y") /\ res.toplevel["y"] = Reference("x")
    /\ out.first["x"] = "CircularReferenceError"
    /\ out.first["y"] = "CircularReferenceError"

(***************************************************************************)
(* The mapped value of an expression: what evaluate returns on a Result    *)
(* on which nothing has been dereferenced before and whose answer set is   *)
(* present, or <<exception>> if it raises.  inprogress is the set of the   *)
(* names whose evaluation the expression is part of.                       *)
(***************************************************************************)
IsValue(v) == Len(v) = 2

\* The first exception among results, or << >>.
FirstRaised(results) ==
    IF \E i \in 1..Len(results) : ~IsValue(results[i])
    THEN results[CHOOSE i \in 1..Len(results) :
                    ~IsValue(results[i]) /\ \A j \in 1..(i - 1) : IsValue(results[j])]
    ELSE << >>

RECURSIVE Mapped(_, _, _)
MappedCollection(e, va, inprogress) ==
    LET cvs == CapturedValues(e, va)
        n == Len(cvs)
        assigned == [i \in 1..n |-> AssignVariables(e, va, cvs[i])]
        subAt(i, k) == IF assigned[i][1] = "AssertionError" THEN <<"AssertionError">>
                     ELSE Mapped(e[3][k], assigned[i][2], inprogress)
        contents == [i \in 1..n |-> subAt(i, 1)]
        indices == [i \in 1..n |-> cvs[i][e[4].index_pos]]
        keys == [i \in 1..n |-> subAt(i, 2)]
        \* what the i-th pass of the loop of a set or a dictionary raises
        setPass(i) == IF ~IsValue(contents[i]) THEN contents[i]
                      ELSE IF ~Hashable(contents[i]) THEN <<"TypeError">>
                      ELSE <<"ok", i>>
        dictPass(i) == IF ~IsValue(keys[i]) THEN keys[i]
                       ELSE IF ~Hashable(keys[i]) THEN <<"TypeError">>
                       ELSE IF \E j \in 1..(i - 1) : keys[j] = keys[i]
                       THEN <<"DuplicateKeyError">>
                       ELSE IF ~IsValue(contents[i]) THEN contents[i]
                       ELSE <<"ok", i>>
    IN IF CapturedValuesKeyError(e, va) THEN <<"KeyError">>
       ELSE CASE e[1] = "ExprSet" ->
                    LET passes == [i \in 1..n |-> setPass(i)]
                    IN IF FirstRaised(passes) # << >> THEN FirstRaised(passes)
                       ELSE <<"frozenset", Range(contents)>>
              [] e[1] = "ExprSequence" ->
                    IF \/ \E i \in 1..n : ~IsIntString(indices[i])
                       \/ \E k \in 0..(n - 1) :
                             Cardinality({i \in 1..n : IntOf(indices[i]) = k}) # 1
                    THEN <<"InvalidIndicesError">>
                    ELSE IF FirstRaised(contents) # << >> THEN FirstRaised(contents)
                    ELSE <<"list", [k \in 1..n |->
                                      contents[CHOOSE i \in 1..n : IntOf(indices[i]) = k - 1]]>>
              [] e[1] = "ExprDictionary" ->
                    LET passes == [i \in 1..n |-> dictPass(i)]
                    IN IF FirstRaised(passes) # << >> THEN FirstRaised(passes)
                       ELSE <<"dict", [k \in Range(keys) |->
                                         contents[CHOOSE i \in 1..n : keys[i] = k]]>>

Mapped(e, va, inprogress) ==
    CASE e[1] = "Constant" -> e[2]
      [] e[1] = "Reference" ->
            IF e[2] \in inprogress THEN <<"CircularReferenceError">>
            ELSE IF e[2] \notin DOMAIN res.toplevel THEN <<"UndefinedNameError">>
            ELSE Mapped(res.toplevel[e[2]], EmptyVa, inprogress \cup {e[2]})
      [] e[1] = "Variable" ->
            IF e[2] \in DOMAIN va THEN <<"str", va[e[2]]>> ELSE <<"AssertionError">>
      [] e[1] = "ExprObject" ->
            LET args == [i \in 1..Len(e[3]) |-> Mapped(e[3][i], va, inprogress)]
            IN IF e[2] # None /\ Resolve(e[2]) = None THEN <<"NotImplementedError">>
               ELSE IF e[2] # None /\ IsError(Resolve(e[2])) THEN Resolve(e[2])
               ELSE IF FirstRaised(args) # << >> THEN FirstRaised(args)
               ELSE IF e[2] = None THEN <<"tuple", args>>
               ELSE Construct(Resolve(e[2]), args)
      [] IsCollection(e) -> MappedCollection(e, va, inprogress)

\* The mapped value of a top-level name.
MappedName(name) == Mapped(Reference(name), EmptyVa, {})

\* The top-level names an expression refers to, inside collections too.
RECURSIVE NamesIn(_)
NamesIn(e) ==
    CASE e[1] = "Reference" -> {e[2]}
      [] e[1] = "ExprObject" \/ IsCollection(e) ->
            UNION {NamesIn(e[3][i]) : i \in 1..Len(e[3])}
      [] OTHER -> {}

\* b's expression depends on a: it refers to a, directly or through the
\* expressions of other top-level names.
RECURSIVE DependsWithin(_, _, _)
DependsWithin(b, a, k) ==
    /\ k > 0
    /\ b \in DOMAIN res.toplevel
    /\ \/ a \in NamesIn(res.toplevel[b])
       \/ \E c \in NamesIn(res.toplevel[b]) : DependsWithin(c, a, k - 1)

DependsOn(b, a) == DependsWithin(b, a, Len(TopNames))

OutputErrors ==
    {"CircularReferenceError", "InvalidIndicesError", "DuplicateKeyError", "UndefinedNameError"}

\* Some other name a, on which the name of the completed get does not
\* depend, has raised an output-time error on this Result, and the name of
\* the completed get has a mapped value.
AfterUnrelatedError ==
    /\ GetCompleted
    /\ out.name \in DOMAIN res.toplevel
    /\ IsValue(MappedName(out.name))
    /\ \E a \in Targets \ {out.name} :
          out.first[a] \in OutputErrors /\ ~DependsOn(out.name, a)

\* C11: after get(a) has raised CircularReferenceError, InvalidIndicesError,
\* DuplicateKeyError or UndefinedNameError, get(b) of every other top-level
\* name b whose expression does not depend on a returns b's mapped value.
C11_ErrorFatalForFailingGetOnly ==
    AfterUnrelatedError => ctl = <<"return", MappedName(out.name)>>

\* A get of name is at its entry (OutputResult.get_object has been called
\* and has not run yet).
GetEntered(name) == stk # << >> /\ Top = GetFrame(name) /\ ctl = <<"call">>

\* One step as seen from the cache: a value a get returns to the caller is
\* the one in objs; a value in objs is never replaced; a get of a name whose
\* value is in objs ends in that one step with the value of objs, pushing no
\* evaluate frame, reading no captured tuples and leaving the Result alone.
C12_CachedSteps ==
    /\ (GetCompleted /\ ctl[1] = "return")
          => (out.name \in DOMAIN res.objs /\ res.objs[out.name] = ctl[2])
    /\ \A name \in DOMAIN res.objs :
          res.objs[name] # Sentinel =>
             /\ name \in DOMAIN res'.objs /\ res'.objs[name] = res.objs[name]
             /\ GetEntered(name) =>
                   /\ stk' = Rest
                   /\ ctl' = <<"return", res.objs[name]>>
                   /\ res' = res

\* C12: after get(name) has returned a value, every later get(name) on the
\* Result returns the identical cached value, with no evaluation and no
\* scan of the raw answer set, whatever was dereferenced in between.
C12_GetIsIdempotent == [][C12_CachedSteps]_vars

\* A later get of x is called: x's set was returned to the caller before,
\* another name was dereferenced in between and the answer set is gone.
C12_Witness ==
    /\ GetEntered("x")
    /\ out.first["x"] = "value" /\ out.first["y"] # "none"
    /\ res.toplevel["x"][1] = "ExprSet"
    /\ res.objs["x"] = <<"frozenset", {<<"str", "a">>}>>
    /\ ~res.has_answer_set

(***************************************************************************)
(* ExprSequence.evaluate and ExprDictionary.evaluate on every small answer *)
(* set: x is a sequence or a dictionary over p(X, I) whose subexpressions  *)
(* are built from the query's variables, y is a constant or an object that *)
(* refers to x, and the facts of p are drawn from CollFactTuples.          *)
(***************************************************************************)
MaxCollFacts == 2

CollFactTuples == {<<c, i>> : c \in {"a", "b"}, i \in {"0", "1", "a"}}

PairXI == ExprObject(None, <<Variable("X"), Variable("I")>>)

CollectionChoices ==
    {SequenceP,
     ExprSequence(QueryP("X", "I"), PairXI, Variable("I")),
     DictionaryP,
     ExprDictionary(QueryP("X", "I"), PairXI, ExprObject(None, <<Variable("I")>>))}

InitCollections ==
    /\ \E ex \in CollectionChoices, facts \in DistinctSeqs(CollFactTuples, MaxCollFacts),
          ey \in {Constant(<<"int", 1>>),
                  ExprObject(None, <<Reference("x"), Constant(<<"int", 1>>)>>)} :
         \E toplevel \in OutputSpecs(<< <<"x", ex>>, <<"y", ey>> >>) :
            res = [toplevel |-> toplevel,
                   answer_set |-> RawAnswerSet(toplevel, [p \in {"p"} |-> facts]),
                   has_answer_set |-> TRUE,
                   objs |-> EmptyVa]
    /\ stk = << >>
    /\ ctl = <<"idle">>
    /\ out = [name |-> "", first |-> [n \in Targets |-> "none"]]
    /\ DInit /\ XIdle

SpecCollections == InitCollections /\ [][NextOutput]_vars

\* The index values of the surviving captured tuples of a sequence, in the
\* order of the tuples.
IndexValues(coll, va) ==
    LET cvs == CapturedValues(coll, va)
    IN [i \in 1..Len(cvs) |-> cvs[i][coll[4].index_pos]]

\* The index values are integers and, sorted, equal 0, 1, ..., n-1.
ValidIndices(coll, va) ==
    LET indices == IndexValues(coll, va)
    IN /\ \A i \in 1..Len(indices) : IsIntString(indices[i])
       /\ {IntOf(indices[i]) : i \in 1..Len(indices)} = 0..(Len(indices) - 1)

\* The content values of the captured tuples in increasing index order.
ContentsByIndex(coll, va) ==
    LET cvs == CapturedValues(coll, va)
        indices == IndexValues(coll, va)
        at(k) == cvs[CHOOSE i \in 1..Len(cvs) : IntOf(indices[i]) = k]
    IN [k \in 1..Len(cvs) |->
          Mapped(coll[3][1], AssignVariables(coll, va, at(k - 1))[2], {})]

C14_SequenceSteps ==
    /\ Evaluating("ExprSequence") =>
          /\ ctl = <<"call">> =>
                (Raised(ctl', "InvalidIndicesError") <=> ~ValidIndices(Top.expr, Top.va))
          /\ ctl'[1] = "raise" => ctl'[2] = "InvalidIndicesError"
          /\ (stk' = Rest /\ ctl'[1] = "return") =>
                ctl'[2] = <<"list", ContentsByIndex(Top.expr, Top.va)>>
    /\ (GetCompleted /\ out.name = "x" /\ res.toplevel["x"][1] = "ExprSequence") =>
          (ctl[1] = "return" <=> ValidIndices(res.toplevel["x"], EmptyVa))

\* C14: the evaluation of a sequence (whose content evaluates) succeeds
\* exactly when the index values of its captured tuples, sorted, are
\* 0, 1, ..., n-1, and then returns the content values in increasing index
\* order; with a missing, a duplicate or a non-integer index it raises
\* InvalidIndicesError.
C14_SequenceByValidIndices == [][C14_SequenceSteps]_vars

\* x = sequence of X by I was mapped to [a, b] from the captured tuples
\* (b, 1), (a, 0).
C14_Witness ==
    /\ GetCompleted /\ out.name = "x"
    /\ res.toplevel["x"][1] = "ExprSequence"
    /\ IndexValues(res.toplevel["x"], EmptyVa) = <<"1", "0">>
    /\ ctl = <<"return", <<"list", << <<"str", "a">>, <<"str", "b">> >> >> >>

\* The values of the k-th subexpression of a collection (1: content,
\* 2: key) for its captured tuples, in the order of the tuples.
SubexpressionValues(coll, va, k) ==
    LET cvs == CapturedValues(coll, va)
    IN [i \in 1..Len(cvs) |-> Mapped(coll[3][k], AssignVariables(coll, va, cvs[i])[2], {})]

\* The position of the first captured tuple whose key is the key of an
\* earlier one, or 0.
FirstDuplicate(keys) ==
    LET dups == {i \in 1..Len(keys) : \E j \in 1..(i - 1) : keys[j] = keys[i]}
    IN IF dups = {} THEN 0 ELSE CHOOSE i \in dups : \A j \in dups : i <= j

C15_DictionarySteps ==
    /\ Evaluating("ExprDictionary") =>
          LET keys == SubexpressionValues(Top.expr, Top.va, 2)
              contents == SubexpressionValues(Top.expr, Top.va, 1)
          IN /\ ctl'[1] = "raise" =>
                   /\ ctl'[2] = "DuplicateKeyError"
                   /\ ctl = <<"return", keys[FirstDuplicate(keys)]>>
                   /\ Top.pc = "key" /\ Len(Top.acc) = FirstDuplicate(keys) - 1
             /\ (Top.pc = "key" /\ ctl[1] = "return"
                   /\ \E j \in 1..Len(Top.acc) : keys[j] = ctl[2]) =>
                   Raised(ctl', "DuplicateKeyError")
             /\ (stk' = Rest /\ ctl'[1] = "return") =>
                   /\ FirstDuplicate(keys) = 0
                   /\ ctl'[2] = <<"dict", [k \in Range(keys) |->
                                     contents[CHOOSE i \in 1..Len(keys) : keys[i] = k]]>>
    /\ (GetCompleted /\ out.name = "x" /\ res.toplevel["x"][1] = "ExprDictionary") =>
          (ctl[1] = "return"
              <=> FirstDuplicate(SubexpressionValues(res.toplevel["x"], EmptyVa, 2)) = 0)

\* C15: the evaluation of a dictionary raises DuplicateKeyError as soon as
\* a captured tuple evaluates to a key that an earlier tuple had (before
\* that tuple's content and any later tuple is evaluated); with pairwise
\* distinct keys it returns the mapping from each key to the content value
\* of the same tuple.
C15_DictionaryByDistinctKeys == [][C15_DictionarySteps]_vars

\* x = dictionary from X to I over the captured tuples (a, 0), (a, 1): the
\* get of x has raised DuplicateKeyError.
C15_Witness ==
    /\ GetCompleted /\ out.name = "x"
    /\ res.toplevel["x"][1] = "ExprDictionary"
    /\ SubexpressionValues(res.toplevel["x"], EmptyVa, 2) = << <<"str", "a">>, <<"str", "a">> >>
    /\ Raised(ctl, "DuplicateKeyError")

(***************************************************************************)
(* The input mapper (aspio/input.py).  An InputSpec has parameters (names) *)
(* and predicates (rules).  A rule has a predicate name, arguments         *)
(* (accessors) and iterations (target, accessor).  Python values are the   *)
(* tagged tuples of the output mapper; a context maps names to values.     *)
(* Exceptions are 1-tuples.                                                *)
(***************************************************************************)
IntV(n) == <<"int", n>>

AnonymousVariable == <<"AnonymousVariable">>
TupleMatch(targets) == <<"TupleMatch", targets>>
Subscript(key) == <<"Subscript", key>>
Accessor(variable, path) == <<"Accessor", Variable(variable), path>>
Iteration(target, accessor) == [target |-> target, accessor |-> accessor]
Predicate(predicate, arguments, iterations) ==
    [predicate |-> predicate, arguments |-> arguments, iterations |-> iterations]

\* The name of the variable an accessor starts from.
BaseName(accessor) == accessor[2][2]

\* AssignmentTarget.check_and_update_variable_bindings: the bound names
\* with the target's names added, <<"bound", names>>, or
\* <<"RedefinedNameError">>.
RECURSIVE CheckAndUpdate(_, _)
CheckAndUpdate(target, bound_variables) ==
    CASE target[1] = "AnonymousVariable" -> <<"bound", bound_variables>>
      [] target[1] = "Variable" ->
            IF target[2] \in bound_variables THEN <<"RedefinedNameError">>
            ELSE <<"bound", bound_variables \cup {target[2]}>>
      [] target[1] = "TupleMatch" ->
            IF target[2] = << >> THEN <<"bound", bound_variables>>
            ELSE LET first == CheckAndUpdate(Head(target[2]), bound_variables)
                 IN IF IsError(first) THEN first
                    ELSE CheckAndUpdate(TupleMatch(Tail(target[2])), first[2])

\* The loop over the iterations in Predicate.check_variable_bindings, with
\* Iteration.check_and_update_variable_bindings: the accessor is checked
\* first, then the target's names are added.
RECURSIVE CheckIterations(_, _)
CheckIterations(iterations, bound_variables) ==
    IF iterations = << >> THEN <<"bound", bound_variables>>
    ELSE LET it == Head(iterations)
             target == CheckAndUpdate(it.target, bound_variables)
         IN IF BaseName(it.accessor) \notin bound_variables THEN <<"UndefinedNameError">>
            ELSE IF IsError(target) THEN target
            ELSE CheckIterations(Tail(iterations), target[2])

CheckVariableBindings_ArgumentsUnchecked(pred, input_variables) ==
    CheckIterations(pred.iterations, Range(input_variables))

\* Predicate.check_variable_bindings.
CheckVariableBindings(pred, input_variables) ==
    LET bound == CheckIterations(pred.iterations, Range(input_variables))
    IN IF IsError(bound) THEN bound
       ELSE IF \E i \in 1..Len(pred.arguments) : BaseName(pred.arguments[i]) \notin bound[2]
       THEN <<"UndefinedNameError">>
       ELSE bound

\* InputSpec.__init__: the exception it raises, or "none".
CheckNames(parameters, predicates) ==
    LET checked == [i \in 1..Len(predicates) |->
                       CheckVariableBindings(predicates[i], parameters)]
    IN IF Len(parameters) # Cardinality(Range(parameters)) THEN "RedefinedNameError"
       ELSE IF FirstError(checked) # << >> THEN FirstError(checked)[1]
       ELSE "none"

\* The characters of the texts the model's strings are made of.
CharsOf(text) ==
    CASE text = "" -> << >>
      [] text = "ab" -> <<"a", "b">>
      [] text = "ba" -> <<"b", "a">>
      [] text = "abc" -> <<"a", "b", "c">>
      [] OTHER -> <<text>>

\* The elements of a sequence (a tuple, a list, the characters of a str).
SequenceItems(obj) ==
    IF obj[1] = "str" THEN [i \in 1..Len(CharsOf(obj[2])) |-> <<"str", CharsOf(obj[2])[i]>>]
    ELSE obj[2]

\* Subscript.access: obj[key], or ValueError for the KeyError, IndexError
\* or TypeError of the subscription.
Access(obj, attr) ==
    LET key == attr[2]
    IN CASE obj[1] \in {"tuple", "list", "str"} ->
               LET items == SequenceItems(obj)
               IN IF key[1] # "int" THEN <<"ValueError">>
                  ELSE IF key[2] \in 0..(Len(items) - 1) THEN items[key[2] + 1]
                  ELSE IF -key[2] \in 1..Len(items) THEN items[Len(items) + key[2] + 1]
                  ELSE <<"ValueError">>
         [] obj[1] = "dict" ->
               IF Hashable(key) /\ key \in DOMAIN obj[2] THEN obj[2][key] ELSE <<"ValueError">>
         [] OTHER -> <<"ValueError">>

RECURSIVE AccessPath(_, _)
AccessPath(obj, path) ==
    IF path = << >> THEN obj
    ELSE LET result == Access(obj, Head(path))
         IN IF IsError(result) THEN result ELSE AccessPath(result, Tail(path))

\* Accessor.perform_access: the value, ValueError from the path, or KeyError
\* if the context has no value for the accessor's variable.
PerformAccess(accessor, context) ==
    IF BaseName(accessor) \notin DOMAIN context THEN <<"KeyError">>
    ELSE AccessPath(context[BaseName(accessor)], accessor[3])

\* Iteration.get_collection_iterator: <<"iter", ordered, rest>> with the
\* items still to come (the elements of a set, the (index, element) tuples
\* of a sequence, the (key, element) tuples of a mapping), or ValueError.
\* A str is a sequence of its characters.  The items of a set come in any
\* order; those of a mapping come in the order its keys were inserted,
\* which a dict value of the model does not record: it stands for the
\* dicts with these items, so its items come in any order as well.
GetCollectionIterator(collection) ==
    CASE collection[1] = "frozenset" -> <<"iter", FALSE, collection[2]>>
      [] collection[1] \in {"list", "tuple", "str"} ->
            <<"iter", TRUE, [i \in 1..Len(SequenceItems(collection)) |->
                               <<"tuple", <<IntV(i - 1), SequenceItems(collection)[i]>>>>]>>
      [] collection[1] = "dict" ->
            <<"iter", FALSE, {<<"tuple", <<k, collection[2][k]>>>> : k \in DOMAIN collection[2]}>>
      [] OTHER -> <<"ValueError">>

Exhausted(col_iter) == IF col_iter[2] THEN col_iter[3] = << >> ELSE col_iter[3] = {}
NextItems(col_iter) == IF col_iter[2] THEN {Head(col_iter[3])} ELSE col_iter[3]
Advanced(col_iter, item) ==
    <<"iter", col_iter[2], IF col_iter[2] THEN Tail(col_iter[3]) ELSE col_iter[3] \ {item}>>

SomeOrder(S) == CHOOSE q \in [1..Cardinality(S) -> S] : Range(q) = S

\* The sequences of elements zip can take from a value: the elements of a
\* sequence in their order, those of a set and the keys of a mapping in
\* any of their iteration orders.
ElementsOf(value) ==
    CASE value[1] \in {"tuple", "list", "str"} -> {SequenceItems(value)}
      [] value[1] = "frozenset" -> Orderings(value[2])
      [] value[1] = "dict" -> Orderings(DOMAIN value[2])

\* AssignmentTarget.assign: the possible outcomes, each <<"context",
\* context>> with the target's variables assigned, ValueError on a length
\* mismatch, or TypeError if the value matched against a tuple of targets
\* has no length.  AssignEach is the loop of TupleMatch.assign over
\* zip(targets, value).
RECURSIVE Assign(_, _, _)
RECURSIVE AssignEach(_, _, _)
AssignEach(targets, values, context) ==
    IF targets = << >> THEN {<<"context", context>>}
    ELSE UNION {IF IsError(first) THEN {first}
                ELSE AssignEach(Tail(targets), Tail(values), first[2]) :
                first \in Assign(Head(targets), Head(values), context)}

Assign(target, value, context) ==
    CASE target[1] = "AnonymousVariable" -> {<<"context", context>>}
      [] target[1] = "Variable" -> {<<"context", (target[2] :> value) @@ context>>}
      [] target[1] = "TupleMatch" ->
            IF value[1] = "int" THEN {<<"TypeError">>}
            ELSE UNION {IF Len(elements) # Len(target[2]) THEN {<<"ValueError">>}
                        ELSE AssignEach(target[2], elements, context) :
                        elements \in ElementsOf(value)}

(***************************************************************************)
(* InputSpec construction and perform_mapping as a state machine.  inp:    *)
(*   pc          "new" (before InputSpec.__init__), "failed" (__init__     *)
(*               raised exc), "constructed", "mapping" (inside             *)
(*               Predicate.perform_mapping of predicates[pred]),           *)
(*               "returned", "raised" (perform_mapping raised exc)         *)
(*   called      perform_mapping has been called, with arguments           *)
(*   context, iter_stack   the locals of Predicate.perform_mapping         *)
(*   facts       the (predicate, args) pairs passed to the accumulator     *)
(***************************************************************************)
MaxRules == 2
MaxElems == 2

Var(name) == Accessor(name, << >>)

\* The rules an InputSpec is built from; each has its own predicate name.
RuleChoices ==
    {Predicate("empty", << >>, << >>),
     Predicate("r", <<Accessor("xs", <<Subscript(IntV(0))>>)>>, << >>),
     Predicate("m", <<Var("n")>>, << >>),
     Predicate("p", <<Var("x")>>, <<Iteration(Variable("x"), Var("xs"))>>),
     Predicate("q", <<Var("i"), Var("y")>>,
               <<Iteration(TupleMatch(<<Variable("i"), Variable("x")>>), Var("xs")),
                 Iteration(Variable("y"), Var("x"))>>),
     Predicate("u", <<Var("z")>>, <<Iteration(Variable("x"), Var("xs"))>>),
     Predicate("o", <<Var("y")>>,
               <<Iteration(Variable("y"), Var("x")), Iteration(Variable("x"), Var("xs"))>>),
     Predicate("s", <<Var("x")>>, <<Iteration(Variable("x"), Var("x"))>>),
     Predicate("d", <<Var("x")>>,
               <<Iteration(Variable("x"), Var("xs")), Iteration(Variable("x"), Var("xs"))>>),
     Predicate("t", << >>,
               <<Iteration(TupleMatch(<<AnonymousVariable, Variable("xs")>>), Var("xs"))>>),
     Predicate("w", <<Var("a")>>,
               <<Iteration(TupleMatch(<<AnonymousVariable,
                                        TupleMatch(<<Variable("a"), Variable("b")>>)>>),
                           Var("xs"))>>)}

ParameterChoices == {<<"xs">>, <<"xs", "n">>, <<"xs", "xs">>}

\* The values passed for xs: an integer, a str, a dict and the lists of at
\* most two sets of the integers 1..MaxElems.
SetChoices == {<<"frozenset", {IntV(k) : k \in S}>> : S \in SUBSET (1..MaxElems)}
XsChoices ==
    {IntV(7), <<"list", << >>>>, <<"str", "ab">>,
     <<"dict", (IntV(1) :> <<"frozenset", {IntV(1)}>>) @@ (IntV(2) :> <<"str", "ba">>)>>}
    \cup {<<"list", <<a>>>> : a \in SetChoices}
    \cup {<<"list", <<a, b>>>> : a \in SetChoices, b \in SetChoices}

ArgumentChoices ==
    {<< >>} \cup {<<xs>> : xs \in XsChoices} \cup {<<xs, IntV(5)>> : xs \in XsChoices}

InputInit ==
    \E parameters \in ParameterChoices, predicates \in DistinctSeqs(RuleChoices, MaxRules) :
        inp = [pc |-> "new", parameters |-> parameters, predicates |-> predicates,
               exc |-> "none", called |-> FALSE, arguments |-> << >>, pred |-> 0,
               context |-> EmptyVa, iter_stack |-> << >>, facts |-> << >>]

\* InputSpec.__init__.
InputSpecInit ==
    /\ inp.pc = "new"
    /\ LET exc == CheckNames(inp.parameters, inp.predicates)
       IN inp' = [inp EXCEPT !.pc = IF exc = "none" THEN "constructed" ELSE "failed",
                             !.exc = exc]
    /\ UNCHANGED <<dvars, ovars, wire, cit>>

RaisedIn(state, exc) == [state EXCEPT !.pc = "raised", !.exc = exc]

\* dict(zip(self._parameters, arguments)).
InitialContext(state) ==
    LET zipped == {i \in 1..Len(state.parameters) : i <= Len(state.arguments)}
    IN [name \in {state.parameters[i] : i \in zipped} |->
          state.arguments[CHOOSE i \in zipped :
                             /\ state.parameters[i] = name
                             /\ \A j \in zipped : state.parameters[j] = name => j <= i]]

\* Predicate.perform_mapping has left its loop: InputSpec.perform_mapping
\* calls it for the next predicate with a new context, or returns.
PredicateDone(state) ==
    IF state.pred = Len(state.predicates)
    THEN [state EXCEPT !.pc = "returned", !.iter_stack = << >>]
    ELSE [state EXCEPT !.pred = @ + 1, !.context = InitialContext(state),
                       !.iter_stack = << >>]

Called_NoCountCheck(state, arguments) ==
    LET called == [state EXCEPT !.arguments = arguments, !.called = TRUE]
    IN IF state.predicates = << >> THEN [called EXCEPT !.pc = "returned"]
       ELSE [called EXCEPT !.pc = "mapping", !.pred = 1, !.context = InitialContext(called)]

\* InputSpec.perform_mapping(arguments, accumulator) up to its first call
\* of Predicate.perform_mapping: the count of the arguments is checked
\* before anything else is done.
Called(state, arguments) ==
    LET called == [state EXCEPT !.arguments = arguments, !.called = TRUE]
    IN IF Len(arguments) # Len(state.parameters) THEN RaisedIn(called, "ValueError")
       ELSE IF state.predicates = << >> THEN [called EXCEPT !.pc = "returned"]
       ELSE [called EXCEPT !.pc = "mapping", !.pred = 1, !.context = InitialContext(called)]

\* InputSpec.perform_mapping is called with some arguments.
PerformMapping ==
    /\ inp.pc = "constructed"
    /\ \E arguments \in ArgumentChoices : inp' = Called(inp, arguments)
    /\ UNCHANGED <<dvars, ovars, wire, cit>>

\* The second half of the loop body of Predicate.perform_mapping: add a
\* fact if all iterations have a binding, else enter the next iteration.
FactOrDescend(state) ==
    LET p == state.predicates[state.pred]
        n == Len(state.iter_stack)
        args == [i \in 1..Len(p.arguments) |-> PerformAccess(p.arguments[i], state.context)]
        added == [state EXCEPT !.facts = Append(@, <<p.predicate, args>>)]
        collection == PerformAccess(p.iterations[n + 1].accessor, state.context)
        col_iter == GetCollectionIterator(collection)
    IN IF n = Len(p.iterations)
       THEN IF FirstError(args) # << >> THEN RaisedIn(state, FirstError(args)[1])
            ELSE IF Len(p.iterations) = 0 THEN PredicateDone(added)
            ELSE added
       ELSE IF IsError(collection) THEN RaisedIn(state, collection[1])
            ELSE IF IsError(col_iter) THEN RaisedIn(state, col_iter[1])
            ELSE [state EXCEPT !.iter_stack = Append(@, col_iter)]

LoopPass_StopWhenExhausted(state) ==
    LET p == state.predicates[state.pred]
        n == Len(state.iter_stack)
    IN IF n = 0 THEN {FactOrDescend(state)}
       ELSE IF Exhausted(state.iter_stack[n]) THEN {PredicateDone(state)}
       ELSE UNION {{IF IsError(assigned) THEN RaisedIn(state, assigned[1])
                    ELSE FactOrDescend([state EXCEPT !.context = assigned[2],
                                                     !.iter_stack[n] = Advanced(@, item)]) :
                    assigned \in Assign(p.iterations[n].target, item, state.context)} :
                   item \in NextItems(state.iter_stack[n])}

\* One pass of the `while True` loop of Predicate.perform_mapping: the
\* states it can lead to.
LoopPass(state) ==
    LET p == state.predicates[state.pred]
        n == Len(state.iter_stack)
    IN IF n = 0 THEN {FactOrDescend(state)}
       ELSE IF Exhausted(state.iter_stack[n])
       THEN {IF n = 1 THEN PredicateDone(state)
             ELSE [state EXCEPT !.iter_stack = SubSeq(@, 1, n - 1)]}
       ELSE UNION {{IF IsError(assigned) THEN RaisedIn(state, assigned[1])
                    ELSE FactOrDescend([state EXCEPT !.context = assigned[2],
                                                     !.iter_stack[n] = Advanced(@, item)]) :
                    assigned \in Assign(p.iterations[n].target, item, state.context)} :
                   item \in NextItems(state.iter_stack[n])}

\* Predicate.perform_mapping goes through its loop once.
PredicateLoop ==
    /\ inp.pc = "mapping"
    /\ inp' \in LoopPass(inp)
    /\ UNCHANGED <<dvars, ovars, wire, cit>>

INext == InputSpecInit \/ PerformMapping \/ PredicateLoop

InitInput == InputInit /\ DInit /\ OIdle /\ WIdle /\ CIdle
NextInput == INext
SpecInput == InitInput /\ [][NextInput]_vars

\* The contexts of the combinations of bindings of the iterations, the
\* outer iteration first; the collection of an inner iteration is read
\* under the binding of the outer ones.  Where a target takes the elements
\* of a set, each of the set's orders gives a binding: the result is the
\* set of the sequences of contexts a run can go through.
RECURSIVE Combinations(_, _)
Combinations(iterations, context) ==
    IF iterations = << >> THEN {<<context>>}
    ELSE LET it == Head(iterations)
             col_iter == GetCollectionIterator(PerformAccess(it.accessor, context))
             items == IF col_iter[2] THEN col_iter[3] ELSE SomeOrder(col_iter[3])
             inner(i) == UNION {Combinations(Tail(iterations), assigned[2]) :
                                assigned \in {a \in Assign(it.target, items[i], context) :
                                                ~IsError(a)}}
             all == UNION {inner(i) : i \in 1..Len(items)}
         IN {Concat(choice) :
               choice \in {c \in [1..Len(items) -> all] :
                             \A i \in 1..Len(items) : c[i] \in inner(i)}}

\* One fact per combination: the rule's accessors read in its context.
ExpectedFacts(rule, context) ==
    {[i \in 1..Len(combinations) |->
        <<rule.predicate, [a \in 1..Len(rule.arguments) |->
                             PerformAccess(rule.arguments[a], combinations[i])]>>] :
     combinations \in Combinations(rule.iterations, context)}

Occurrences(seq, x) == Cardinality({i \in 1..Len(seq) : seq[i] = x})
SameBag(a, b) ==
    Len(a) = Len(b) /\ \A i \in 1..Len(a) : Occurrences(a, a[i]) = Occurrences(b, a[i])

\* The facts of a predicate name that were passed to the accumulator.
FactsFor(predicate) == SelectSeq(inp.facts, LAMBDA f : f[1] = predicate)

\* C13: when perform_mapping has returned, the accumulator has received for
\* each rule exactly one fact per combination of iteration bindings of the
\* nested cross-product (none for an outer element whose inner collection
\* is empty, the later outer elements still being visited), exactly one
\* fact for a rule without iterations, and every fact has as many arguments
\* as the rule has accessors.
C13_OneFactPerCombination ==
    inp.pc = "returned" =>
        \A r \in 1..Len(inp.predicates) :
            LET rule == inp.predicates[r]
                facts == FactsFor(rule.predicate)
            IN /\ \E expected \in ExpectedFacts(rule, InitialContext(inp)) :
                     SameBag(facts, expected)
               /\ rule.iterations = << >> => Len(facts) = 1
               /\ \A i \in 1..Len(facts) : Len(facts[i][2]) = Len(rule.arguments)

\* xs = [{}, {1, 2}] was mapped by q(i, y) for (i, x) in xs for y in x and
\* by empty(): two facts of q, both for the second element, and one of empty.
C13_Witness ==
    /\ inp.pc = "returned"
    /\ inp.arguments = << <<"list", << <<"frozenset", {}>>, <<"frozenset", {IntV(1), IntV(2)}>> >> >> >>
    /\ Len(inp.predicates) = 2
    /\ inp.predicates[1].predicate = "q" /\ inp.predicates[2].predicate = "empty"
    /\ Len(FactsFor("q")) = 2 /\ Len(FactsFor("empty")) = 1
    /\ \A i \in 1..2 : FactsFor("q")[i][2][1] = IntV(1)

\* The names a target binds, in the order of their occurrences.
RECURSIVE TargetNames(_)
TargetNames(target) ==
    CASE target[1] = "Variable" -> <<target[2]>>
      [] target[1] = "AnonymousVariable" -> << >>
      [] target[1] = "TupleMatch" ->
            Concat([i \in 1..Len(target[2]) |-> TargetNames(target[2][i])])

\* The scope rule for one predicate rule, as the sequence of the outcomes
\* of its checks in order: per iteration the source accessor against the
\* names bound so far, then each target name (which must be new), and at
\* the end each fact argument against all bound names.
ScopeChecks(rule, parameters) ==
    LET names(k) == TargetNames(rule.iterations[k].target)
        before(k) == Range(parameters) \cup UNION {Range(names(j)) : j \in 1..(k - 1)}
        n == Len(rule.iterations)
    IN Concat([k \in 1..n |->
                 <<IF BaseName(rule.iterations[k].accessor) \in before(k)
                   THEN "none" ELSE "UndefinedNameError">>
                 \o [j \in 1..Len(names(k)) |->
                       IF names(k)[j] \in before(k) \cup {names(k)[i] : i \in 1..(j - 1)}
                       THEN "RedefinedNameError" ELSE "none"]])
       \o [a \in 1..Len(rule.arguments) |->
             IF BaseName(rule.arguments[a]) \in before(n + 1)
             THEN "none" ELSE "UndefinedNameError"]

\* The error of the first failing check of an InputSpec, or "none".
ScopeError(parameters, predicates) ==
    LET checks == Concat([r \in 1..Len(predicates) |-> ScopeChecks(predicates[r], parameters)])
        failing == {i \in 1..Len(checks) : checks[i] # "none"}
    IN IF \E i, j \in 1..Len(parameters) : i # j /\ parameters[i] = parameters[j]
       THEN "RedefinedNameError"
       ELSE IF failing = {} THEN "none"
       ELSE checks[CHOOSE i \in failing : \A j \in failing : i <= j]

\* C17: InputSpec construction raises the error of the first failing scope
\* check (RedefinedNameError for duplicate parameters and for a target name
\* that is bound already, UndefinedNameError for an iteration source or a
\* fact argument whose base name is not bound at that point) and succeeds
\* if no check fails; perform_mapping of a constructed spec never looks up
\* a name that its context does not bind (no KeyError).
C17_ScopeCheckedAtConstruction ==
    /\ inp.pc # "new" =>
          /\ inp.pc = "failed" <=> ScopeError(inp.parameters, inp.predicates) # "none"
          /\ inp.pc = "failed" => inp.exc = ScopeError(inp.parameters, inp.predicates)
    /\ inp.exc # "KeyError"

\* The construction of INPUT (xs) { q(i, y) for (i, x) in xs for y in x;
\* o(y) for y in x for x in xs; } has raised UndefinedNameError: the second
\* rule reads x before its second iteration binds it.
C17_Witness ==
    /\ inp.pc = "failed" /\ inp.exc = "UndefinedNameError"
    /\ inp.parameters = <<"xs">>
    /\ Len(inp.predicates) = 2
    /\ inp.predicates[1].predicate = "q" /\ inp.predicates[2].predicate = "o"

(***************************************************************************)
(* Program.solve with the dlvhex2 solver (program.py 134-168).  solve      *)
(* hands write_asp_input to Dlvhex2Solver.run as its write_input:          *)
(* write_asp_input calls InputSpec.perform_mapping with a                  *)
(* StreamAccumulator on the stream, which writes every fact to the stream, *)
(* then writes the additional rules of the OutputSpec and the code parts   *)
(* of the Program.  The steps of run() and of the subprocess are those of  *)
(* the protocol driver; inp.pc is "written" when the rules and the code    *)
(* have been written, "solved" when solve has returned the Results and     *)
(* "solve_raised" when it has raised inp.exc.                              *)
(***************************************************************************)
\* The rules and arguments of the Programs that are solved.
SolveRules == {rule \in RuleChoices : rule.predicate \in {"empty", "r", "p"}}

SolveArguments ==
    {<< >>, << <<"list", << >>>> >>, << <<"list", << <<"frozenset", {IntV(1)}>> >>>> >>,
     << <<"list", << <<"frozenset", {IntV(1)}>> >>>>, IntV(5) >>}

\* A Program with a constructed InputSpec; solve(*arguments) is called.
SolveInit ==
    \E parameters \in ParameterChoices, predicates \in DistinctSeqs(SolveRules, MaxRules),
       arguments \in SolveArguments :
        /\ CheckNames(parameters, predicates) = "none"
        /\ inp = [pc |-> "constructed", parameters |-> parameters, predicates |-> predicates,
                  exc |-> "none", called |-> FALSE, arguments |-> arguments, pred |-> 0,
                  context |-> EmptyVa, iter_stack |-> << >>, facts |-> << >>]

\* run() is at the call of write_input: on the temporary file before the
\* subprocess is started (dlvhex2.py 73-75), or on the named pipe once it
\* is open (89-90).
InWriteInput == drv.pc \in {"r_fwrite", "r_write"}

\* The stream after n texts (facts, rules, code) were written to it;
\* drv.written counts them.  The texts of these Programs are a few short
\* lines, together less than one chunk: the stream on the named pipe keeps
\* them in its buffer, where they make up one chunk that is not full, and
\* passes nothing on to the pipe before it is closed.
StreamAfter(n) ==
    [drv EXCEPT !.written = @ + n,
                !.buffered = IF drv.mode = "pipe" /\ n > 0 THEN 1 ELSE @]

\* program.py 152: write_asp_input starts with the call of perform_mapping.
SolvePerformMapping ==
    /\ InWriteInput /\ inp.pc = "constructed"
    /\ inp' = Called(inp, inp.arguments)
    /\ obs' = [obs EXCEPT !.wiCalled = TRUE, !.startedBeforeWrite = (sub.state # "none")]
    /\ UNCHANGED <<drv, sub, thr>>
    /\ UNCHANGED <<ovars, wire, cit>>

\* One pass of the loop of Predicate.perform_mapping; a fact it adds is
\* written to the stream by StreamAccumulator.add_fact (program.py 199-207).
SolvePredicateLoop ==
    /\ InWriteInput /\ inp.pc = "mapping"
    /\ \E next \in LoopPass(inp) :
         /\ inp' = next
         /\ drv' = StreamAfter(Len(next.facts) - Len(inp.facts))
    /\ UNCHANGED <<sub, thr, obs>>
    /\ UNCHANGED <<ovars, wire, cit>>

\* program.py 154-160: perform_mapping has returned; the additional rules
\* and the code parts are written (one text, or nothing if there are
\* none).
SolveWriteProgram ==
    /\ InWriteInput /\ inp.pc = "returned"
    /\ \E n \in {0, 1} : drv' = StreamAfter(n)
    /\ inp' = [inp EXCEPT !.pc = "written"]
    /\ UNCHANGED <<sub, thr, obs>>
    /\ UNCHANGED <<ovars, wire, cit>>

\* write_asp_input returns to run(): the temporary file is closed and the
\* subprocess started next, the named pipe is closed at the end of its with
\* block.
SolveWriteReturns ==
    /\ InWriteInput /\ inp.pc = "written"
    /\ IF drv.mode = "pipe" THEN RunLeaveWith("none")
       ELSE /\ drv' = [drv EXCEPT !.pc = "r_popen"]
            /\ obs' = [obs EXCEPT !.wiReturned = TRUE, !.fileClosed = TRUE]
            /\ UNCHANGED <<sub, thr>>
    /\ UNCHANGED <<ovars, xvars>>

\* The exception of perform_mapping leaves write_asp_input (program.py 152
\* has no handler): with a temporary file the file is closed and removed
\* and the exception leaves run() (dlvhex2.py 73-75, 102-104), with a named
\* pipe it reaches the end of the with block of dlvhex2.py 89-90.
SolveWriteRaises ==
    /\ InWriteInput /\ inp.pc = "raised"
    /\ IF drv.mode = "pipe" THEN RunLeaveWith(inp.exc)
       ELSE /\ drv' = [drv EXCEPT !.pc = "run_raised", !.ipc = "removed"]
            /\ obs' = [obs EXCEPT !.fileClosed = TRUE, !.wiExc = inp.exc,
                                  !.runExc = inp.exc, !.lastExc = inp.exc]
            /\ UNCHANGED <<sub, thr>>
    /\ UNCHANGED <<ovars, xvars>>

\* program.py 162-168: solve has no handler around solver.run: what run()
\* raises leaves solve (and solve_one, whose with statement is not entered);
\* when run() has returned the stream, solve returns the Results made of it.
SolveReturn ==
    /\ inp.pc \notin {"solved", "solve_raised"}
    /\ drv.pc \in {"run_raised", "idle"}
    /\ inp' = IF drv.pc = "run_raised"
              THEN [inp EXCEPT !.pc = "solve_raised", !.exc = obs.runExc]
              ELSE [inp EXCEPT !.pc = "solved"]
    /\ UNCHANGED <<dvars, ovars, wire, cit>>

SNext ==
    \/ RunCreateIpc \/ RunPopen \/ RunOpenPipe
    \/ SolvePerformMapping \/ SolvePredicateLoop \/ SolveWriteProgram
    \/ SolveWriteReturns \/ SolveWriteRaises
    \/ RunExitFlush \/ RunClosePipe \/ RunFail \/ RunConstruct
    \/ SolveReturn
    \/ ProcOpenInput \/ ProcReadChunk \/ ProcReadEof \/ ProcEmitLine \/ ProcCloseStdout
    \/ ProcExit \/ ProcWriteErr \/ ProcErrUnblock
    \/ ThreadRead \/ ThreadEof

InitSolve == SolveInit /\ DInit /\ OIdle /\ WIdle /\ CIdle
SpecSolve == InitSolve /\ [][SNext]_vars

\* perform_mapping has been called with a number of arguments that differs
\* from the number of parameters.
CalledWithWrongCount == inp.called /\ Len(inp.arguments) # Len(inp.parameters)

\* solve is on its way to its caller with an exception and can go on.
SolveOnTheWayOut == ENABLED (SolveWriteRaises \/ RunExitFlush \/ RunClosePipe \/ RunFail \/ SolveReturn)

\* C16: perform_mapping called with a number of arguments other than the
\* number of parameters raises ValueError before any fact is passed to the
\* accumulator (nothing has been written to the stream); run() does not
\* return a stream, is never stuck on its way out and raises that
\* ValueError, which is what Program.solve raises to its caller.
C16_CountMismatchRaisesValueError ==
    CalledWithWrongCount =>
        /\ inp.facts = << >> /\ drv.written = 0
        /\ inp.pc \in {"raised", "solve_raised"}
        /\ inp.exc = "ValueError"
        /\ obs.wiExc \in {"none", "ValueError"}
        /\ drv.pc \in {"r_fwrite", "r_write", "r_exit", "r_fail", "run_raised"}
        /\ drv.pc = "run_raised" => obs.runExc = "ValueError"
        /\ inp.pc = "raised" => SolveOnTheWayOut

\* solve has raised ValueError on a named pipe: two arguments were passed
\* for the one parameter of a spec whose rule empty() needs no argument at
\* all; no fact was written and the subprocess, which had opened the pipe,
\* was killed.
C16_Witness ==
    /\ inp.pc = "solve_raised" /\ inp.exc = "ValueError" /\ inp.called
    /\ inp.parameters = <<"xs">> /\ Len(inp.arguments) = 2
    /\ Len(inp.predicates) = 1 /\ inp.predicates[1].predicate = "empty"
    /\ inp.facts = << >>
    /\ drv.mode = "pipe" /\ sub.opened /\ sub.rc = -SIGKILL /\ drv.ipc = "removed"

(***************************************************************************)
(* The wire formats.  Texts are sequences of characters (one-character     *)
(* strings).  StreamAccumulator (program.py) writes facts for the solver,  *)
(* AnswerSetParser (parser.py) reads a line of the solver's answer sets,   *)
(* asp.Literal / asp.Query (asp.py) are rendered into the capture rules.   *)
(***************************************************************************)
MaxStrLen == 2
MaxArgs == 2

DQ == "\""
BS == "\\"

\* The characters of pyparsing's nums, of srange('[a-z]') and of alphanums
\* + '_' that occur in the texts of the model.
Nums == {"0", "1", "2", "3", "4", "5", "6", "7", "8", "9"}
AlphasLowercase == {"a", "b", "f", "n", "p", "r", "t"}
Alphanums == AlphasLowercase \cup Nums \cup {"X", "_"}

\* str.replace(old, new) for a one-character old.
RECURSIVE Replace(_, _, _)
Replace(text, old, new) ==
    IF text = << >> THEN << >>
    ELSE (IF Head(text) = old THEN new ELSE <<Head(text)>>) \o Replace(Tail(text), old, new)

\* asp.quote.
Quote(arg) ==
    <<DQ>> \o Replace(Replace(arg, BS, <<BS, BS>>), DQ, <<BS, DQ>>) \o <<DQ>>

\* str(n) for an integer n.
RECURSIVE Digits(_)
Digits(n) ==
    LET digit == <<"0", "1", "2", "3", "4", "5", "6", "7", "8", "9">>[(n % 10) + 1]
    IN IF n < 10 THEN <<digit>> ELSE Append(Digits(n \div 10), digit)

Str(n) == IF n < 0 THEN <<"-">> \o Digits(-n) ELSE Digits(n)

\* ','.join(texts).
RECURSIVE Join(_)
Join(texts) ==
    IF texts = << >> THEN << >>
    ELSE IF Len(texts) = 1 THEN texts[1]
    ELSE texts[1] \o <<",">> \o Join(Tail(texts))

\* StreamAccumulator.arg_str: integers unquoted, everything else quoted.
ArgStr(arg) == IF arg[1] = "int" THEN Str(arg[2]) ELSE Quote(arg[2])

\* The text StreamAccumulator.add_fact writes.
FactText(predicate, args) ==
    predicate \o <<"(">> \o Join([i \in 1..Len(args) |-> ArgStr(args[i])]) \o <<")", ".", "\n">>

\* str of a term of a literal: Variable, unquoted constant (str),
\* QuotedConstant or integer.
TermStr(term) ==
    CASE term[1] = "quoted" -> Quote(term[2])
      [] term[1] = "integer" -> Str(term[2])
      [] OTHER -> term[2]

\* asp.Literal.__str__ (not default-negated).
LiteralStr(predicate, arguments) ==
    predicate \o <<"(">> \o Join([i \in 1..Len(arguments) |-> TermStr(arguments[i])]) \o <<")">>

\* DEFAULT_WHITESPACE_CHARS of parser.py: every element of a grammar skips
\* these characters before it matches.
NL == "\n"
TAB == "\t"
WhitespaceChars == {" ", NL, TAB, "\r"}

RECURSIVE SkipWhitespace(_, _)
SkipWhitespace(text, pos) ==
    IF pos <= Len(text) /\ text[pos] \in WhitespaceChars THEN SkipWhitespace(text, pos + 1)
    ELSE pos

\* pyparsing Literal(c) at pos: the position after c, or 0.
Lit(text, pos, c) ==
    LET at == SkipWhitespace(text, pos)
    IN IF at <= Len(text) /\ text[at] = c THEN at + 1 ELSE 0

\* pyparsing Word(init, body) at pos: <<token, next position>>, or << >>.
RECURSIVE WordEnd(_, _, _)
WordEnd(text, pos, body) ==
    IF pos <= Len(text) /\ text[pos] \in body THEN WordEnd(text, pos + 1, body) ELSE pos

WordAt(text, at, end) == <<SubSeq(text, at, end - 1), end>>

Word(text, pos, init, body) ==
    IF SkipWhitespace(text, pos) <= Len(text) /\ text[SkipWhitespace(text, pos)] \in init
    THEN WordAt(text, SkipWhitespace(text, pos),
                WordEnd(text, SkipWhitespace(text, pos) + 1, body))
    ELSE << >>

\* The pyparsing releases that setup.py admits (pyparsing >= 2.1.4) differ
\* in how QuotedString removes the escapes: the releases before 3.1 by
\* replacing, those from 3.1 on by one scan.
PyparsingReleases == {"before 3.1", "3.1"}

\* The whitespace escapes QuotedString converts (convertWhitespaceEscapes
\* is left at its default): the letter after the backslash and the
\* character it stands for.
WhitespaceEscapes == << <<"t", TAB>>, <<"n", NL>>, <<"f", "\f">>, <<"r", "\r">> >>

\* str.replace(old, new) for the two-character old <<BS, letter>>.
RECURSIVE ReplaceEscape(_, _, _)
ReplaceEscape(text, letter, new) ==
    IF text = << >> THEN << >>
    ELSE IF Len(text) >= 2 /\ text[1] = BS /\ text[2] = letter
    THEN <<new>> \o ReplaceEscape(SubSeq(text, 3, Len(text)), letter, new)
    ELSE <<Head(text)>> \o ReplaceEscape(Tail(text), letter, new)

\* re.sub(escChar + "(.)", "\g<1>", text): the dot matches no line break.
RECURSIVE RemoveEscapes(_)
RemoveEscapes(text) ==
    IF text = << >> THEN << >>
    ELSE IF Len(text) >= 2 /\ text[1] = BS /\ text[2] # NL
    THEN <<text[2]>> \o RemoveEscapes(SubSeq(text, 3, Len(text)))
    ELSE <<Head(text)>> \o RemoveEscapes(Tail(text))

\* The unquoting of the releases before 3.1: each whitespace escape is
\* replaced over the whole text, then the escaping backslashes are removed.
RECURSIVE ConvertAll(_, _)
ConvertAll(text, escapes) ==
    IF escapes = << >> THEN text
    ELSE ConvertAll(ReplaceEscape(text, Head(escapes)[1], Head(escapes)[2]), Tail(escapes))

UnquoteByReplacing(text) == RemoveEscapes(ConvertAll(text, WhitespaceEscapes))

\* The unquoting of the releases from 3.1 on: one scan that takes a
\* whitespace escape, else a backslash with the character it escapes, else
\* one character.
RECURSIVE UnquoteByScan(_)
UnquoteByScan(text) ==
    LET ws == {i \in 1..Len(WhitespaceEscapes) :
                 Len(text) >= 2 /\ text[2] = WhitespaceEscapes[i][1]}
    IN IF text = << >> THEN << >>
       ELSE IF text[1] = BS /\ ws # {}
       THEN <<WhitespaceEscapes[CHOOSE i \in ws : TRUE][2]>>
                \o UnquoteByScan(SubSeq(text, 3, Len(text)))
       ELSE IF Len(text) >= 2 /\ text[1] = BS /\ text[2] # NL
       THEN <<text[2]>> \o UnquoteByScan(SubSeq(text, 3, Len(text)))
       ELSE <<Head(text)>> \o UnquoteByScan(Tail(text))

\* The end of the match of QuotedString's pattern from pos, which is after
\* the opening quote: characters other than the quote, the backslash and
\* line breaks, and backslashes followed by a character other than a line
\* feed, up to the closing quote.  The position after it, or 0.
RECURSIVE QuotedEnd(_, _)
QuotedEnd(text, pos) ==
    IF pos > Len(text) \/ text[pos] \in {NL, "\r"} THEN 0
    ELSE IF text[pos] = DQ THEN pos + 1
    ELSE IF text[pos] = BS
    THEN IF pos + 1 > Len(text) \/ text[pos + 1] = NL THEN 0
         ELSE QuotedEnd(text, pos + 2)
    ELSE QuotedEnd(text, pos + 1)

\* The text between the quotes at and end - 1, unquoted as the release
\* does it.
UnquotedText(text, at, end, release) ==
    IF release = "3.1" THEN UnquoteByScan(SubSeq(text, at + 1, end - 2))
    ELSE UnquoteByReplacing(SubSeq(text, at + 1, end - 2))

QuotedAt(text, at, end, release) ==
    IF end # 0 THEN <<UnquotedText(text, at, end, release), end>> ELSE << >>

\* pyparsing QuotedString(quoteChar='"', escChar='\\') at pos: <<the text
\* between the quotes, unquoted, next position>>, or << >>.
QuotedString(text, pos, release) ==
    IF SkipWhitespace(text, pos) <= Len(text) /\ text[SkipWhitespace(text, pos)] = DQ
    THEN QuotedAt(text, SkipWhitespace(text, pos),
                  QuotedEnd(text, SkipWhitespace(text, pos) + 1), release)
    ELSE << >>

\* pyparsing MatchFirst (a | b | c): the match of the first alternative
\* that matches, or << >>.
MatchFirst(alternatives) ==
    IF \A i \in 1..Len(alternatives) : alternatives[i] = << >> THEN << >>
    ELSE alternatives[CHOOSE i \in 1..Len(alternatives) :
                         /\ alternatives[i] # << >>
                         /\ \A j \in 1..(i - 1) : alternatives[j] = << >>]

\* arg = str_integer | quoted_string | constant_symbol: every constant is
\* returned as a string.
Arg(text, pos, release) ==
    MatchFirst(<<Word(text, pos, Nums, Nums), QuotedString(text, pos, release),
                 Word(text, pos, AlphasLowercase, Alphanums)>>)

\* The tokens matched so far, closed by the literal c: <<tokens, next
\* position>>, or << >>.
Closed(text, all, c) ==
    IF Lit(text, all[2], c) # 0 THEN <<all[1], Lit(text, all[2], c)>> ELSE << >>

\* ZeroOrMore(comma + x): <<the tokens appended to tokens, next position>>.
\* facts tells whether x is fact or arg.
RECURSIVE Fact(_, _, _), CommaList(_, _, _, _, _), More(_, _, _, _, _, _)
CommaList(text, pos, tokens, facts, release) ==
    IF Lit(text, pos, ",") = 0 THEN <<tokens, pos>>
    ELSE More(text, pos, tokens, facts, release,
              IF facts THEN Fact(text, Lit(text, pos, ","), release)
              ELSE Arg(text, Lit(text, pos, ","), release))

\* x is what followed the comma at pos.
More(text, pos, tokens, facts, release, x) ==
    IF x = << >> THEN <<tokens, pos>>
    ELSE CommaList(text, x[2], Append(tokens, x[1]), facts, release)

\* arg + ZeroOrMore(comma + arg) + rpar, first being the match of arg.
ArgsFrom(text, first, release) ==
    IF first = << >> THEN << >>
    ELSE Closed(text, CommaList(text, first[2], <<first[1]>>, FALSE, release), ")")

\* lpar + arg + ZeroOrMore(comma + arg) + rpar.
Args(text, pos, release) ==
    IF Lit(text, pos, "(") = 0 THEN << >>
    ELSE ArgsFrom(text, Arg(text, Lit(text, pos, "("), release), release)

\* The pair (pred, args) of a fact whose name ends before pos: args is the
\* match of the Optional argument list.
FactOf(pred, pos, args) ==
    IF args # << >> THEN <<<<pred, args[1]>>, args[2]>> ELSE <<<<pred, << >>>>, pos>>

\* The fact with the predicate name dash + name.
FactNamed(text, dash, name, release) ==
    IF name = << >> THEN << >>
    ELSE FactOf(dash \o name[1], name[2], Args(text, name[2], release))

\* fact = predicate_name + Group(Optional(lpar + ... + rpar)), as the
\* pair (pred, args); predicate_name is Optional('-') + Word(...), joined.
Fact(text, pos, release) ==
    IF Lit(text, pos, "-") # 0
    THEN FactNamed(text, <<"-">>,
                   Word(text, Lit(text, pos, "-"), AlphasLowercase, Alphanums), release)
    ELSE FactNamed(text, << >>, Word(text, pos, AlphasLowercase, Alphanums), release)

\* str.expandtabs(), which parseString applies to its input: a tab becomes
\* the spaces up to the next column that is a multiple of 8; column is the
\* number of characters since the last line break.
RECURSIVE ExpandTabs(_, _)
ExpandTabs(text, column) ==
    IF text = << >> THEN << >>
    ELSE IF Head(text) = TAB
    THEN [i \in 1..(8 - (column % 8)) |-> " "] \o ExpandTabs(Tail(text), 0)
    ELSE <<Head(text)>>
             \o ExpandTabs(Tail(text), IF Head(text) \in {NL, "\r"} THEN 0 ELSE column + 1)

\* collect_facts: d[pred] is the list of the argument tuples of pred.
CollectFacts(facts) ==
    [pred \in {facts[i][1] : i \in 1..Len(facts)} |->
        [i \in 1..Len(SelectSeq(facts, LAMBDA f : f[1] = pred)) |->
            SelectSeq(facts, LAMBDA f : f[1] = pred)[i][2]]]

\* The facts of the line and the closing brace, which only whitespace may
\* follow (parseAll).
AnswerSetOf(line, closed) ==
    IF closed # << >> /\ SkipWhitespace(line, closed[2]) > Len(line)
    THEN <<"RawAnswerSet", CollectFacts(closed[1])>>
    ELSE <<"ParseException">>

\* Optional(fact + ZeroOrMore(comma + fact)) + rbrace, first being the match
\* of fact at pos.
FactsFrom(line, pos, first, release) ==
    IF first = << >> THEN Closed(line, <<<< >>, pos>>, "}")
    ELSE Closed(line, CommaList(line, first[2], <<first[1]>>, TRUE, release), "}")

\* lbrace + Optional(fact + ZeroOrMore(comma + fact)) + rbrace over the
\* whole line.
AnswerSet(line, release) ==
    IF Lit(line, 1, "{") = 0 THEN <<"ParseException">>
    ELSE AnswerSetOf(line, FactsFrom(line, Lit(line, 1, "{"),
                                     Fact(line, Lit(line, 1, "{"), release), release))

\* parse_answer_set: the text is parsed by the AnswerSetParser, which gives
\* <<"RawAnswerSet", d>> or <<"ParseException">>.
ParseAnswerSet(text, release) == AnswerSet(ExpandTabs(text, 0), release)

(***************************************************************************)
(* The wire formats as a state machine.  wire.pc is "fact" for a fact      *)
(* about to be passed to the stream sink, "written" once the sink wrote    *)
(* it, "line" for a line of answer-set output of the solver, "parsed"      *)
(* after parse_answer_set, "literal" for a query literal of a collection   *)
(* and "rule" once it was rendered into the capture rule.  wire.kind keeps *)
(* the initial wire.pc.                                                    *)
(***************************************************************************)
\* The characters of the strings handed to add_fact: a letter, the two
\* characters asp.quote escapes, the letters that after a backslash make a
\* whitespace escape of QuotedString, a line feed and a tab.
StringChars == {"a", DQ, BS, "n", "t", "r", "f", NL, TAB}

RECURSIVE StringsUpTo(_)
StringsUpTo(n) ==
    IF n = 0 THEN {<< >>}
    ELSE StringsUpTo(n - 1) \cup {Append(t, c) : t \in StringsUpTo(n - 1), c \in StringChars}

\* Arguments handed to add_fact: integers and strings.
FactArguments ==
    {<<"int", n>> : n \in {-1, 0, 1, 12}} \cup {<<"str", t>> : t \in StringsUpTo(MaxStrLen)}

\* Terms the solver prints, and constants of a query literal.
WireTerms ==
    {<<"symbol", <<"a">>>>, <<"symbol", <<"a", "b">>>>, <<"integer", 1>>}
        \cup {<<"quoted", t>> : t \in {<<"a">>, <<"a", "b">>, <<"1">>, << >>}}

LiteralTerms == WireTerms \cup {<<"Variable", <<"X">>>>}

PredicateNames == {<<"p">>, <<"-", "p">>}

RECURSIVE TuplesUpTo(_, _)
TuplesUpTo(S, n) ==
    IF n = 0 THEN {<< >>}
    ELSE TuplesUpTo(S, n - 1) \cup {Append(t, x) : t \in TuplesUpTo(S, n - 1), x \in S}

\* ' '.join(texts).
RECURSIVE JoinSpaced(_)
JoinSpaced(texts) ==
    IF texts = << >> THEN << >>
    ELSE IF Len(texts) = 1 THEN texts[1]
    ELSE texts[1] \o <<" ">> \o JoinSpaced(Tail(texts))

\* A line of answer-set output with the single fact predicate(terms):
\* "plain" without any whitespace, "spaced" with a space between every two
\* tokens and a line feed at the end.
AnswerSetLine(predicate, terms, layout) ==
    LET args == [i \in 1..(2 * Len(terms) - 1) |->
                    IF i % 2 = 1 THEN TermStr(terms[(i + 1) \div 2]) ELSE <<",">>]
        tokens == <<<<"{">>, predicate>>
                      \o (IF terms = << >> THEN << >> ELSE <<<<"(">>>> \o args \o <<<<")">>>>)
                      \o <<<<"}">>>>
    IN IF layout = "spaced" THEN JoinSpaced(tokens) \o <<NL>> ELSE Concat(tokens)

WireInit ==
    \E predicate \in PredicateNames, release \in PyparsingReleases :
        \/ \E args \in TuplesUpTo(FactArguments, MaxArgs) :
               wire = [pc |-> "fact", kind |-> "fact", predicate |-> predicate, args |-> args,
                       release |-> release, text |-> << >>, parsed |-> << >>]
        \/ \E terms \in TuplesUpTo(WireTerms, MaxArgs), layout \in {"plain", "spaced"} :
               wire = [pc |-> "line", kind |-> "line", predicate |-> predicate, args |-> terms,
                       release |-> release,
                       text |-> AnswerSetLine(predicate, terms, layout), parsed |-> << >>]
        \/ \E terms \in TuplesUpTo(LiteralTerms, MaxArgs) \ {<< >>} :
               wire = [pc |-> "literal", kind |-> "literal", predicate |-> predicate, args |-> terms,
                       release |-> release, text |-> << >>, parsed |-> << >>]

\* StreamAccumulator.add_fact.
AddFact ==
    /\ wire.pc = "fact"
    /\ wire' = [wire EXCEPT !.pc = "written", !.text = FactText(wire.predicate, wire.args)]
    /\ UNCHANGED <<dvars, ovars, inp, cit>>

\* The fact the sink wrote, without its terminating ".\n", as the only
\* fact of an answer-set line.
WrittenLine == <<"{">> \o SubSeq(wire.text, 1, Len(wire.text) - 2) \o <<"}">>

\* parser.parse_answer_set on the line, with the pyparsing release that is
\* installed.
ParseAnswerSetLine ==
    /\ wire.pc \in {"written", "line"}
    /\ wire' = [wire EXCEPT !.pc = "parsed",
                            !.text = IF wire.pc = "written" THEN WrittenLine ELSE wire.text,
                            !.parsed = ParseAnswerSet(IF wire.pc = "written" THEN WrittenLine
                                                      ELSE wire.text, wire.release)]
    /\ UNCHANGED <<dvars, ovars, inp, cit>>

\* ExprCollection.additional_rules: the body of the capture rule is
\* str(query).
RenderQuery ==
    /\ wire.pc = "literal"
    /\ wire' = [wire EXCEPT !.pc = "rule", !.text = LiteralStr(wire.predicate, wire.args)]
    /\ UNCHANGED <<dvars, ovars, inp, cit>>

WNext == AddFact \/ ParseAnswerSetLine \/ RenderQuery

InitWire == WireInit /\ DInit /\ OIdle /\ IIdle /\ CIdle

NextWire == WNext

SpecWire == InitWire /\ [][NextWire]_vars

(***************************************************************************)
(* Claims about the wire formats.                                          *)
(***************************************************************************)
\* The fact written by the sink has been parsed as a fact of an answer-set line.
SinkFactParsed == wire.kind = "fact" /\ wire.pc = "parsed"

\* The RawAnswerSet holding the single fact predicate(arguments).
SingleFact(predicate, arguments) ==
    <<"RawAnswerSet", [pred \in {predicate} |-> <<arguments>>]>>

\* The argument tuple the parser returned for the single fact, as Python
\* values: the parser returns every constant as a string.
ParsedArguments ==
    LET tokens == wire.parsed[2][wire.predicate][1]
    IN [i \in 1..Len(tokens) |-> <<"str", tokens[i]>>]

\* The same for the facts whose arguments are strings: the parsed line
\* holds the fact with the original argument tuple.
StringsRoundTrip ==
    SinkFactParsed /\ (\A i \in 1..Len(wire.args) : wire.args[i][1] = "str") =>
        wire.parsed = SingleFact(wire.predicate, [i \in 1..Len(wire.args) |-> wire.args[i][2]])

\* C18: serializing (predicate, argument tuple) with the stream sink and
\* parsing the text as a fact of an answer-set line yields the original
\* predicate and argument tuple, for integers (also negative ones) and for
\* strings containing double quotes and backslashes.
C18_RoundTripYieldsOriginal ==
    SinkFactParsed =>
        /\ wire.parsed # <<"ParseException">>
        /\ DOMAIN wire.parsed[2] = {wire.predicate}
        /\ Len(wire.parsed[2][wire.predicate]) = 1
        /\ ParsedArguments = wire.args

\* A line printed by the solver has been parsed.
SolverLineParsed == wire.kind = "line" /\ wire.pc = "parsed"

\* The form in which a constant of a literal is written in ASP: a quoted
\* constant between double quotes (the quoted texts of LiteralTerms need no
\* escaping), everything else bare.
WrittenForm(term) ==
    CASE term[1] = "quoted" -> <<DQ>> \o term[2] \o <<DQ>>
      [] term[1] = "integer" -> Digits(term[2])
      [] OTHER -> term[2]

\* parse_answer_set gives different values to a bare symbol and a quoted
\* string of the same text occurring in the line.
SymbolAndQuotedParsedDistinct ==
    SolverLineParsed /\ wire.args # << >> =>
        /\ wire.parsed # <<"ParseException">>
        /\ LET tokens == wire.parsed[2][wire.predicate][1]
           IN \A i, j \in 1..Len(wire.args) :
                  /\ wire.args[i][1] = "symbol"
                  /\ wire.args[j][1] = "quoted"
                  /\ wire.args[i][2] = wire.args[j][2]
                  => tokens[i] # tokens[j]

\* The rendered query literal writes every constant in its own form.
RenderedQueryKeepsForm ==
    wire.pc = "rule" =>
        wire.text = wire.predicate \o <<"(">>
                        \o Join([i \in 1..Len(wire.args) |-> WrittenForm(wire.args[i])])
                        \o <<")">>

\* C19: a bare symbol and a quoted string with the same text are kept
\* distinct: parse_answer_set maps the wire terms abc and "abc" to
\* different values, and a query literal keeps the quoted/unquoted form of
\* each constant when it is rendered into a capture rule.
C19_SymbolAndQuotedKeptDistinct ==
    SymbolAndQuotedParsedDistinct /\ RenderedQueryKeepsForm

(***************************************************************************)
(* CachingIterable (helper/caching_iterable.py), as Results uses it with   *)
(* cache=True.  cit.items is the sequence the base iterable produces,      *)
(* cit.base what the base iterator has not produced yet, cit.has_base      *)
(* whether the attribute base_iterator exists, cit.base_next the number of *)
(* calls of next(self.base_iterator).  cit.iters are the generators made   *)
(* by __iter__: pos is the local variable, at is where the generator is    *)
(* suspended ("start": not started, "yield": at the yield, "end":          *)
(* finished), out the elements it has yielded.  Each next() is one step.   *)
(***************************************************************************)
MaxBase == 2
MaxIters == 3

CachingInit ==
    \E items \in TuplesUpTo({"r", "s"}, MaxBase) :
        cit = [pc |-> "cached", items |-> items, base |-> items, has_base |-> TRUE,
               base_next |-> 0, cache |-> << >>, done |-> FALSE, iters |-> << >>]

\* CachingIterable.__iter__: a new generator, none of its code has run.
CachingIter ==
    /\ cit.pc = "cached"
    /\ Len(cit.iters) < MaxIters
    /\ cit' = [cit EXCEPT !.iters = Append(@, [pos |-> 0, at |-> "start", out |-> << >>])]
    /\ UNCHANGED <<dvars, ovars, inp, wire>>

GenerateNext_WhenResumed(c, pos) ==
    IF c.done THEN c
    ELSE IF c.base # << >>
    THEN [c EXCEPT !.base_next = @ + 1, !.base = Tail(@), !.cache = Append(@, Head(c.base))]
    ELSE [c EXCEPT !.base_next = @ + 1, !.done = TRUE, !.has_base = FALSE]

\* The generator resumed with local position pos: _generate_next is called
\* when pos is beyond the cache and the iterable is not done.
GenerateNext(c, pos) ==
    IF pos < Len(c.cache) \/ c.done THEN c
    ELSE IF c.base # << >>
    THEN [c EXCEPT !.base_next = @ + 1, !.base = Tail(@), !.cache = Append(@, Head(c.base))]
    ELSE [c EXCEPT !.base_next = @ + 1, !.done = TRUE, !.has_base = FALSE]

\* next() on the i-th generator: resume after the yield (pos += 1), run
\* the loop up to the next yield or to the break.  On a finished generator
\* next() raises StopIteration and changes nothing.
Resumed(i) ==
    LET it == cit.iters[i]
        pos == IF it.at = "yield" THEN it.pos + 1 ELSE it.pos
        c == GenerateNext(cit, pos)
    IN IF it.at = "end" THEN cit
       ELSE IF pos < Len(c.cache)
       THEN [c EXCEPT !.iters[i] = [pos |-> pos, at |-> "yield",
                                    out |-> Append(it.out, c.cache[pos + 1])]]
       ELSE [c EXCEPT !.iters[i] = [pos |-> pos, at |-> "end", out |-> it.out]]

CachingNext ==
    /\ cit.pc = "cached"
    /\ \E i \in 1..Len(cit.iters) : cit' = Resumed(i)
    /\ UNCHANGED <<dvars, ovars, inp, wire>>

CNext == CachingIter \/ CachingNext

InitCaching == CachingInit /\ DInit /\ OIdle /\ IIdle /\ WIdle

NextCaching == CNext

SpecCaching == InitCaching /\ [][NextCaching]_vars

(***************************************************************************)
(* Claims about CachingIterable.                                           *)
(***************************************************************************)
IsPrefix(s, t) == Len(s) <= Len(t) /\ s = SubSeq(t, 1, Len(s))

\* The position the i-th generator asks for when it is resumed.
Requested(i) ==
    IF cit.iters[i].at = "yield" THEN cit.iters[i].pos + 1 ELSE cit.iters[i].pos

\* The i-th generator is the one resumed by the step.
ResumedBy(i) == i \in 1..Len(cit.iters) /\ Len(cit'.iters) = Len(cit.iters) /\ cit' = Resumed(i)

C20_CachingSteps ==
    cit.pc = "cached" =>
        \* every iterator yields the elements in base order from the first
        /\ \A i \in 1..Len(cit'.iters) : IsPrefix(cit'.iters[i].out, cit.items)
        \* a running iterator that is resumed yields the next element, or
        \* stops when it has yielded all of them and the base is exhausted
        /\ \A i \in 1..Len(cit.iters) :
               ResumedBy(i) /\ cit.iters[i].at # "end" =>
                   IF Len(cit.iters[i].out) < Len(cit.items)
                   THEN /\ cit'.iters[i].at = "yield"
                        /\ Len(cit'.iters[i].out) = Len(cit.iters[i].out) + 1
                   ELSE /\ cit'.iters[i].at = "end"
                        /\ cit'.iters[i].out = cit.items
                        /\ cit'.done
        \* the base iterator is advanced only on a request beyond the cache
        /\ cit'.base_next # cit.base_next =>
               /\ cit'.base_next = cit.base_next + 1
               /\ ~cit.done
               /\ \E i \in 1..Len(cit.iters) : ResumedBy(i) /\ Requested(i) = Len(cit.cache)
        \* and once per element: the cache holds what the base produced
        /\ cit'.cache \o cit'.base = cit.items
        /\ cit'.base_next = Len(cit'.cache) + (IF cit'.done THEN 1 ELSE 0)
        /\ cit'.done => cit'.base = << >>
        \* an iterator stops only after the full sequence
        /\ \A i \in 1..Len(cit'.iters) :
               cit'.iters[i].at = "end" => cit'.done /\ cit'.iters[i].out = cit.items

\* C20: with several iterators of a CachingIterable whose next() calls are
\* interleaved in any order, each call atomic, every iterator yields the
\* elements of the base iterable in base order starting from the first;
\* the base iterator is advanced only when some iterator requests an
\* element beyond the cache, and exactly once per element; once the base
\* is exhausted every iterator, also one created later, yields the full
\* sequence and then stops.
C20_InterleavedIteratorsSeeBaseOrder == [][C20_CachingSteps]_vars

\* Interleaved iterators over two elements: the first exhausted the base
\* and stopped while the second had yielded one element; a third one,
\* created after the base was exhausted, yielded both and stopped.
C20_Witness ==
    /\ cit.pc = "cached" /\ cit.done /\ cit.items = <<"r", "s">>
    /\ Len(cit.iters) = 3
    /\ cit.iters[1].at = "end" /\ cit.iters[1].out = cit.items
    /\ cit.iters[2].at = "yield" /\ cit.iters[2].out = <<"r">>
    /\ cit.iters[3].at = "end" /\ cit.iters[3].out = cit.items
    /\ cit.base_next = 3

(***************************************************************************)
(* Claims about the release of the raw answer set.                         *)
(***************************************************************************)
\* Every top-level name has its mapped value in objs.
AllResolved(r) ==
    \A n \in DOMAIN r.toplevel : n \in DOMAIN r.objs /\ r.objs[n] # Sentinel

\* The step runs `del self.answer_set` (output.py, line 32).
ReleaseStep ==
    /\ Running("get_object") /\ ctl[1] = "return"
    /\ Cardinality(DOMAIN res.toplevel) = Cardinality(DOMAIN res.objs \cup {Top.name})

\* The step reads self.answer_set (get_captured_values).
ReadStep ==
    stk # << >> /\ Top.kind = "evaluate" /\ IsCollection(Top.expr) /\ ctl = <<"call">>

C21_ReleaseSteps ==
    /\ ~res'.has_answer_set => AllResolved(res')
    /\ ReadStep => res.has_answer_set
    /\ ReleaseStep => res.has_answer_set

\* C21: a Result releases its raw answer set only when every top-level
\* name is resolved: the answer set is never released while a name is
\* unresolved or in progress, no evaluation step reads the answer set after
\* its release, and the release happens at most once.
C21_ReleasedOnlyWhenAllResolved == [][C21_ReleaseSteps]_vars

(***************************************************************************)
(* Collections nested in collections.  x is a collection over p(X, I)      *)
(* whose content is or holds a collection with a query that shares         *)
(* variables with the enclosing query, y is a constant or refers to x.     *)
(* fixed_query_variables is made from a Python set (output.py, line 203),  *)
(* by an intersection whose result need not list the names as the set of   *)
(* the enclosing query does; its order is the same in the capture rule and *)
(* in get_captured_values.                                                 *)
(***************************************************************************)
MaxNestedFacts == 2

NestedFactTuples == {<<c, i>> : c \in {"a", "b"}, i \in {"a", "b"}}

\* The values of J in p(X, J) by X: the nested set is fixed by X.
DictOfSets ==
    ExprDictionary(QueryP("X", "I"), ExprSet(QueryP("X", "J"), Variable("J")), Variable("X"))

\* The same with a set outside: nothing outside the nested query uses X.
SetOfSets == ExprSet(QueryP("X", "I"), ExprSet(QueryP("X", "J"), Variable("J")))

\* The nested set is fixed by X and I, which its query lists as I, X.
SetOfSymmetric ==
    ExprSet(QueryP("X", "I"),
            ExprObject(None, <<Variable("X"), Variable("I"),
                               ExprSet(QueryP("I", "X"), Constant(<<"int", 1>>))>>))

\* The nested set shares no variable with the enclosing query.
SetOfFree ==
    ExprSet(QueryP("X", "I"),
            ExprObject(None, <<Variable("X"), ExprSet(QueryP("Y", "J"), Variable("J"))>>))

\* The nested set is fixed by X and I with its query the other way round,
\* and the enclosing set captures X only.
SetOfSwapped ==
    ExprSet(QueryP("X", "I"),
            ExprObject(None, <<Variable("X"),
                               ExprSet(QueryP("I", "X"), Constant(<<"int", 1>>))>>))

NestedChoices == {DictOfSets, SetOfSets, SetOfSymmetric, SetOfFree, SetOfSwapped}

InitNested ==
    /\ \E ex \in NestedChoices, facts \in DistinctSeqs(NestedFactTuples, MaxNestedFacts),
          ey \in {Constant(<<"int", 1>>), Reference("x")} :
         \E toplevel \in OutputSpecs(<< <<"x", ex>>, <<"y", ey>> >>) :
            res = [toplevel |-> toplevel,
                   answer_set |-> RawAnswerSet(toplevel, [p \in {"p"} |-> facts]),
                   has_answer_set |-> TRUE,
                   objs |-> EmptyVa]
    /\ stk = << >>
    /\ ctl = <<"idle">>
    /\ out = [name |-> "", first |-> [n \in Targets |-> "none"]]
    /\ DInit /\ XIdle

SpecNested == InitNested /\ [][NextOutput]_vars

(***************************************************************************)
(* Claims about variable scopes in the output mapper.                      *)
(***************************************************************************)
\* OutputSpec.__init__ has returned: no check raised.
Constructed == \A n \in DOMAIN res.toplevel : ~IsError(res.toplevel[n])

\* A Variable expression is about to look its name up in lc.va.
VariableLookup == Evaluating("Variable") /\ ctl = <<"call">>

\* A collection is about to compare its fixed variables with a tuple of
\* its predicate: get_captured_values looks them up in lc.va.
FixedLookup ==
    /\ ReadStep /\ res.has_answer_set
    /\ Top.expr[4].fixed_query_variables # << >>
    /\ Top.expr[4].output_predicate \in DOMAIN res.answer_set
    /\ res.answer_set[Top.expr[4].output_predicate] # << >>

\* C22: if the OutputSpec was constructed without a scoping error, every
\* variable lookup in the local context during evaluation finds a bound
\* value: the lookups of Variable expressions and the lookups of a nested
\* collection's fixed variables, also for an outer query variable that is
\* used only in the nested collection's query.
C22_EveryLookupFindsBinding ==
    Constructed =>
        /\ VariableLookup => Top.expr[2] \in DOMAIN Top.va
        /\ FixedLookup => Range(Top.expr[4].fixed_query_variables) \subseteq DOMAIN Top.va

\* A collection with fixed variables (one nested in the collection that
\* binds them) is about to read the tuples of its predicate.
NestedCall == ReadStep /\ res.has_answer_set /\ Top.expr[4].fixed_query_variables # << >>

\* The tuples of the collection's predicate that belong to the enclosing
\* row: at every position of the capture rule's head that holds a fixed
\* variable the tuple has the value bound for that variable.
ScopedTuples(coll, va) ==
    LET head == coll[4].captured_variables
        fixed == Range(coll[4].fixed_query_variables)
        tuples == FactsOf(res.answer_set, coll[4].output_predicate)
    IN SelectSeq(tuples, LAMBDA t : \A k \in 1..Len(head) : head[k] \in fixed => t[k] = va[head[k]])

\* The tuples the collection iterates over after the step that called it.
TuplesUsed ==
    IF Len(stk') > Len(stk) THEN stk'[Len(stk)].todo ELSE << >>

\* The bindings the local context holds once the with-block of
\* assign_variables is left: those of va without the names assigned.
AfterWith(coll, va) ==
    LET head == coll[4].captured_variables
        assigned == {head[k] : k \in (Len(coll[4].fixed_query_variables) + 1)..Len(head)}
    IN [v \in DOMAIN va \ assigned |-> va[v]]

\* The fixed variables of the called collection have values in the local
\* context (the enclosing collection captured them).
NestedCallBound ==
    NestedCall /\ Range(Top.expr[4].fixed_query_variables) \subseteq DOMAIN Top.va

C23_NestedSteps ==
    /\ NestedCallBound =>
           /\ ctl' # <<"raise", "KeyError">>
           /\ ctl'[1] # "raise" => TuplesUsed = ScopedTuples(Top.expr, Top.va)
    /\ (stk # << >> /\ Top.kind = "evaluate" /\ IsCollection(Top.expr) /\ Len(stk') > Len(stk)) =>
           AfterWith(Top.expr, stk'[Len(stk')].va) = Top.va

\* C23: a collection nested in another collection is scoped to the
\* enclosing row: evaluated under given bindings it uses exactly those
\* tuples of its auxiliary predicate whose leading fixed-variable positions
\* equal the values currently bound for those variables, in the order of
\* the capture rule's head; tuples of other rows contribute nothing, and
\* after the evaluation the local context holds exactly the bindings it
\* held before.
C23_NestedScopedToEnclosingRow == [][C23_NestedSteps]_vars

\* x = dictionary from X to the set of J with p(X, J) was mapped from the
\* facts p(a, b), p(b, a): each nested set holds the J of its own X.
C23_Witness ==
    /\ GetCompleted /\ out.name = "x"
    /\ res.toplevel["x"][1] = "ExprDictionary"
    /\ ctl = <<"return", <<"dict", (<<"str", "a">> :> <<"frozenset", {<<"str", "b">>}>>)
                                   @@ (<<"str", "b">> :> <<"frozenset", {<<"str", "a">>}>>)>>>>

(***************************************************************************)
(* Claims about the temporary IPC resource and the end of run().           *)
(***************************************************************************)
\* C24 as stated: the temporary pipe or file is removed only after the
\* subprocess has opened it for reading, on every path that removes it
\* (cleanup after iteration, close() right after run(), error paths of
\* run()).
C24_RemovedOnlyAfterOpened == drv.ipc = "removed" => sub.opened

\* C24 amended: the temporary pipe or file is removed only when the
\* subprocess has opened it for reading or can no longer open it, because
\* it was never started or has stopped.
C24_RemovedOnlyWhenOpenedOrStopped ==
    drv.ipc = "removed" => sub.opened \/ sub.state # "running"

\* File mode, close() right after run() without iterating: __close ended
\* the subprocess before it had opened the file, and removed the file.
C24_Witness ==
    /\ drv.ipc = "removed" /\ drv.mode = "file"
    /\ obs.cleanupBy = "close" /\ ~drv.iterating
    /\ sub.state = "exited" /\ ~sub.opened

(***************************************************************************)
(* Program.solve and the OutputSpec: the capture rules written to the      *)
(* solver and the predicates of its output filter.  A rule is              *)
(* <<head predicate, head variables, body query>>.  wire.pc is "program"   *)
(* for a Program whose solve is called, "solving" when solve has called    *)
(* solver.run, "args" when run has built the command line and "input"      *)
(* when write_asp_input has written the rules; wire.toplevel is the        *)
(* OutputSpec, wire.capture the predicates of options.capture.             *)
(***************************************************************************)
\* Expr.additional_rules: Constant, Reference and Variable have none, an
\* object has those of its arguments, a collection its own rule and then
\* those of its subexpressions.
RECURSIVE AdditionalRules_ObjectsSkipped(_)
AdditionalRules_ObjectsSkipped(e) ==
    CASE IsCollection(e) ->
            << <<e[4].output_predicate, e[4].captured_variables, e[2]>> >>
                \o Concat([i \in 1..Len(e[3]) |-> AdditionalRules_ObjectsSkipped(e[3][i])])
      [] OTHER -> << >>

RECURSIVE AdditionalRules(_)
AdditionalRules(e) ==
    CASE e[1] = "ExprObject" -> Concat([i \in 1..Len(e[3]) |-> AdditionalRules(e[3][i])])
      [] IsCollection(e) ->
            << <<e[4].output_predicate, e[4].captured_variables, e[2]>> >>
                \o Concat([i \in 1..Len(e[3]) |-> AdditionalRules(e[3][i])])
      [] OTHER -> << >>

\* Expr.captured_predicates, likewise.
RECURSIVE CapturedPredicates(_)
CapturedPredicates(e) ==
    CASE e[1] = "ExprObject" -> Concat([i \in 1..Len(e[3]) |-> CapturedPredicates(e[3][i])])
      [] IsCollection(e) ->
            <<e[4].output_predicate>>
                \o Concat([i \in 1..Len(e[3]) |-> CapturedPredicates(e[3][i])])
      [] OTHER -> << >>

\* The names of an OutputSpec in the order of self.exprs.
NamesOf(toplevel) == SelectSeq(TopNames, LAMBDA n : n \in DOMAIN toplevel)

\* OutputSpec.additional_rules
SpecAdditionalRules(toplevel) ==
    Concat([i \in 1..Len(NamesOf(toplevel)) |-> AdditionalRules(toplevel[NamesOf(toplevel)[i]])])

\* OutputSpec.captured_predicates: a set.
SpecCapturedPredicates(toplevel) ==
    Range(Concat([i \in 1..Len(NamesOf(toplevel)) |->
                     CapturedPredicates(toplevel[NamesOf(toplevel)[i]])]))

\* The OutputSpecs of the Programs: those of SpecOutput and of SpecNested
\* whose construction raises nothing.
ProgramSpecs ==
    UNION ({OutputSpecs(<< <<"x", ex>>, <<"y", ey>> >>) :
               ex \in ExprChoices \cup NestedChoices, ey \in SecondExprChoices}
           \cup {OutputSpecs(<< <<"x", ex>> >>) : ex \in ExprChoices \cup NestedChoices})

ProgramInit ==
    \E toplevel \in ProgramSpecs, capture \in {<< >>, <<"q">>} :
        wire = [pc |-> "program", kind |-> "program", toplevel |-> toplevel,
                capture |-> capture, capture_predicates |-> {}, filter |-> << >>,
                rules |-> << >>]

\* Program.solve up to the call of solver.run: the capture predicates of
\* the OutputSpec are passed as capture_predicates.
ProgramSolve ==
    /\ wire.pc = "program"
    /\ wire' = [wire EXCEPT !.pc = "solving",
                            !.capture_predicates = SpecCapturedPredicates(wire.toplevel)]
    /\ UNCHANGED <<dvars, ovars, inp, cit>>

\* Dlvhex2Solver.run: --filter lists capture_predicates (a set, in any
\* order) followed by options.capture.
RunFilter ==
    /\ wire.pc = "solving"
    /\ \E order \in Orders(wire.capture_predicates) :
           wire' = [wire EXCEPT !.pc = "args", !.filter = order \o wire.capture]
    /\ UNCHANGED <<dvars, ovars, inp, cit>>

\* write_asp_input: the additional rules of the OutputSpec are written to
\* the program text.
WriteAspInput ==
    /\ wire.pc = "args"
    /\ wire' = [wire EXCEPT !.pc = "input", !.rules = SpecAdditionalRules(wire.toplevel)]
    /\ UNCHANGED <<dvars, ovars, inp, cit>>

PNext == ProgramSolve \/ RunFilter \/ WriteAspInput

InitProgram == ProgramInit /\ DInit /\ OIdle /\ IIdle /\ CIdle

SpecProgram == InitProgram /\ [][PNext]_vars

(***************************************************************************)
(* C25: the collection nodes of an OutputSpec, by position.                *)
(***************************************************************************)
MaxDepth == 3
Positions == UNION {[1..n -> 1..3] : n \in 0..MaxDepth}

\* The subexpression of e at a position: the arguments of an object and
\* the content or key of a collection are its children.
RECURSIVE SubexprAt(_, _)
SubexprAt(e, pos) ==
    IF pos = << >> THEN e
    ELSE IF (e[1] = "ExprObject" \/ IsCollection(e)) /\ Head(pos) <= Len(e[3])
         THEN SubexprAt(e[3][Head(pos)], Tail(pos))
         ELSE <<"none">>

\* The collection nodes of the OutputSpec: <<top-level name, position>>.
CollectionNodes(toplevel) ==
    {nd \in (DOMAIN toplevel) \X Positions : IsCollection(SubexprAt(toplevel[nd[1]], nd[2]))}

NodeAt(nd) == SubexprAt(wire.toplevel[nd[1]], nd[2])

\* C25: when Program.solve has written the program text, every collection
\* node of the OutputSpec has a predicate no other node has, exactly one
\* written rule has that predicate as head (the node's own rule), no other
\* rule is written, and the filter predicates that come from the OutputSpec
\* are exactly the heads of the written rules.
C25_OneRuleAndFilterPerCollection ==
    wire.kind = "program" /\ wire.pc = "input" =>
        LET nodes == CollectionNodes(wire.toplevel)
            heads == {wire.rules[k][1] : k \in 1..Len(wire.rules)}
            fromSpec == SubSeq(wire.filter, 1, Len(wire.filter) - Len(wire.capture))
        IN  /\ \A a, b \in nodes :
                   a # b => NodeAt(a)[4].output_predicate # NodeAt(b)[4].output_predicate
            /\ \A a \in nodes :
                   /\ Cardinality({k \in 1..Len(wire.rules) :
                                      wire.rules[k][1] = NodeAt(a)[4].output_predicate}) = 1
                   /\ <<NodeAt(a)[4].output_predicate, NodeAt(a)[4].captured_variables,
                        NodeAt(a)[2]>> \in Range(wire.rules)
                   /\ NodeAt(a)[4].output_predicate \in Range(fromSpec)
            /\ Len(wire.rules) = Cardinality(nodes)
            /\ Range(fromSpec) = heads
            /\ Len(fromSpec) = Cardinality(heads)

\* A Program whose OutputSpec has a collection as an object argument and a
\* collection as content of another collection has been solved.
C25_Witness ==
    /\ wire.kind = "program" /\ wire.pc = "input"
    /\ Cardinality(CollectionNodes(wire.toplevel)) >= 3
    /\ \E a \in CollectionNodes(wire.toplevel) :
           SubexprAt(wire.toplevel[a[1]], SubSeq(a[2], 1, Len(a[2]) - 1))[1] = "ExprObject"
               /\ a[2] # << >>
    /\ \E a \in CollectionNodes(wire.toplevel) :
           a[2] # << >> /\ IsCollection(SubexprAt(wire.toplevel[a[1]], SubSeq(a[2], 1, Len(a[2]) - 1)))

(***************************************************************************)
(* C26: a DlvhexLineReader is iterated once.                               *)
(***************************************************************************)
\* A step that starts an iteration on a reader whose iteration has started.
SecondIterationStarts == obs.iterations >= 1 /\ obs'.iterations > obs.iterations

\* C26: starting a second iteration on a DlvhexLineReader whose first
\* iteration has started ends with an AssertionError, and the step reads
\* no line from the subprocess, writes no acknowledgement and leaves the
\* reader and the subprocess as they were.
C26_SecondIterationSteps ==
    SecondIterationStarts =>
        /\ obs'.lastExc = "AssertionError"
        /\ obs'.yielded = obs.yielded /\ obs'.acks = obs.acks
        /\ sub' = sub /\ drv' = drv /\ thr' = thr

C26_SecondIterationFails == [][C26_SecondIterationSteps]_vars

\* A second iteration was started while the first was suspended at a yield
\* and the subprocess was running, waiting for the acknowledgement.
C26_Witness ==
    /\ obs.iterations = 2 /\ obs.lastExc = "AssertionError"
    /\ drv.genState = "suspended" /\ drv.pc = "idle" /\ obs.yielded >= 1
    /\ sub.state = "running" /\ ~drv.stdinClosed /\ sub.emitted < MaxLines

(***************************************************************************)
(* C27: Dlvhex2Solver.run terminates.                                      *)
(***************************************************************************)
\* run() is inside the with block of lines 89-90: opening the named pipe,
\* writing the input to it or closing it.
RunInPipeInput == drv.pc \in {"r_open", "r_write", "r_exit"}

\* C27 (as claimed): run() is never inside the opening of the named pipe or
\* write_input in a state where neither it nor the subprocess nor anything
\* else can take a step any more, whatever the subprocess has done.
C27_RunNeverBlockedForever == ~(RunInPipeInput /\ ~ENABLED DNext)

(***************************************************************************)
(* C28: a failed get and the in-progress state.                            *)
(***************************************************************************)
\* The first get of the top-level name of the completed get raised
\* InvalidIndicesError, DuplicateKeyError or UndefinedNameError.
FirstGetFailed ==
    /\ GetCompleted
    /\ out.name \in DOMAIN res.toplevel
    /\ out.first[out.name] \in
           {"InvalidIndicesError", "DuplicateKeyError", "UndefinedNameError"}

\* C28 (as claimed): when a get of a top-level name has returned to the
\* caller and the first get of that name on this Result raised
\* InvalidIndicesError, DuplicateKeyError or UndefinedNameError, the name is
\* not in the in-progress state and the get raised that same error.
C28_FailedGetNotLeftInProgress ==
    FirstGetFailed =>
        /\ Memo(out.name) # "IN_PROGRESS"
        /\ Raised(ctl, out.first[out.name])

(***************************************************************************)
(* C29: write_input raises inside Dlvhex2Solver.run.                       *)
(***************************************************************************)
\* Nothing of run() is left: the temporary IPC resource is removed, no
\* stream capture thread or finalizer exists, and a subprocess that was
\* started is not running any more and has its stdin, stdout and stderr
\* closed; with a temporary file no subprocess was ever started.
NothingLeaked ==
    /\ drv.ipc = "removed"
    /\ thr.pc = "notstarted" /\ ~drv.finAlive
    /\ drv.mode = "file" => sub.state = "none"
    /\ drv.mode = "pipe" =>
           /\ sub.state = "exited"
           /\ drv.fifoW = "closed"
           /\ drv.stdinClosed /\ drv.stdoutClosed /\ drv.stderrClosed

\* run() is at the end of the with block or in its handlers and cannot go
\* on.
RunStuckOnTheWayOut ==
    /\ drv.pc \in {"r_exit", "r_fail"}
    /\ ~ENABLED (RunExitFlush \/ RunClosePipe \/ RunFail)

\* What holds once write_input has raised inside run(): run() does not
\* return a stream.  When run() has come back it has raised, and nothing
\* is leaked.  The exception that reaches the caller is that of write_input
\* if the stream held no unwritten text when write_input raised, and with
\* a temporary file; otherwise it is that exception or the BrokenPipeError
\* of the flush that closing the stream performs.  With nothing to flush
\* run() is never stuck on its way out; with text to flush it is stuck only
\* while the named pipe is full and the subprocess is running.
WriteInputFailureOutcomes ==
    obs.wiExc # "none" =>
        /\ drv.pc \in {"r_exit", "r_fail", "run_raised"}
        /\ obs.wiCalled /\ ~obs.wiReturned
        /\ drv.pc = "run_raised" =>
               /\ obs.runExc \in {obs.wiExc, "BrokenPipeError"}
               /\ obs.lastExc = obs.runExc
               /\ (obs.wiBuffered = 0 \/ drv.mode = "file") => obs.runExc = obs.wiExc
               /\ obs.fileClosed
               /\ NothingLeaked
        /\ RunStuckOnTheWayOut =>
               /\ drv.pc = "r_exit" /\ obs.wiBuffered > 0
               /\ sub.state = "running" /\ sub.fifoBuf = FifoCap

\* write_input raised on the named pipe with text in the stream's buffer;
\* the flush passed it on, the running subprocess was killed and the
\* exception of write_input reached the caller.
WriteInputFailureReachedCaller ==
    /\ obs.wiExc = "InputError" /\ obs.runExc = "InputError" /\ drv.mode = "pipe"
    /\ obs.wiBuffered > 0 /\ drv.pc = "run_raised"
    /\ sub.state = "exited" /\ sub.rc = -SIGKILL /\ ~sub.ownExit

\* C29: once write_input has raised inside run(), run() is on its way to
\* raise that exception and is never stuck on that way; when it has come
\* back, that exception has reached the caller and nothing is leaked.
C29_WriteInputFailureLeaksNothing ==
    obs.wiExc # "none" =>
        /\ ~RunStuckOnTheWayOut
        /\ drv.pc = "run_raised" =>
               /\ obs.runExc = obs.wiExc /\ obs.lastExc = obs.wiExc
               /\ NothingLeaked

(***************************************************************************)
(* Results (program.py).  cit.pc is "results"; cit.caching is the cache    *)
(* argument, cit.items the results the answer sets give, cit.base what the *)
(* generator expression of line 224 has not produced yet, cit.results      *)
(* whether self.results is not None; base_next, cache, done and has_base   *)
(* are those of the CachingIterable when there is one.  cit.iters are the  *)
(* generators of Results.__iter__: at is "start", "yield", "end" or        *)
(* "raised" (AssertionError), after_bool whether bool() had been applied   *)
(* to the Results when the iteration was requested.  cit.bools counts the  *)
(* truth tests, cit.truth is the outcome of the last one.                  *)
(***************************************************************************)
MaxBools == 2

ResultsInit ==
    \E items \in TuplesUpTo({"r", "s"}, MaxBase), caching \in BOOLEAN :
        cit = [pc |-> "results", caching |-> caching, items |-> items, base |-> items,
               has_base |-> TRUE, base_next |-> 0, cache |-> << >>, done |-> FALSE,
               results |-> TRUE, iters |-> << >>, bools |-> 0, truth |-> "none"]

NewIterator == [pos |-> 0, at |-> "start", out |-> << >>, after_bool |-> cit.bools > 0]

\* Results.__iter__: a new generator, none of its code has run.
ResultsIter ==
    /\ cit.pc = "results"
    /\ Len(cit.iters) < MaxIters
    /\ cit' = [cit EXCEPT !.iters = Append(@, NewIterator)]
    /\ UNCHANGED <<dvars, ovars, inp, wire>>

\* yield from rs, asked for the element at pos: rs is the generator of the
\* CachingIterable, or the generator expression itself, which every
\* iterator shares.
YieldFrom(c, it, pos) ==
    IF c.caching
    THEN LET g == GenerateNext(c, pos)
         IN IF pos < Len(g.cache)
            THEN [c |-> g, it |-> [it EXCEPT !.pos = pos, !.at = "yield",
                                             !.out = Append(@, g.cache[pos + 1])]]
            ELSE [c |-> g, it |-> [it EXCEPT !.pos = pos, !.at = "end"]]
    ELSE IF c.base # << >>
         THEN [c |-> [c EXCEPT !.base = Tail(@), !.base_next = @ + 1],
               it |-> [it EXCEPT !.pos = pos, !.at = "yield", !.out = Append(@, Head(c.base))]]
         ELSE [c |-> [c EXCEPT !.base_next = @ + 1], it |-> [it EXCEPT !.pos = pos, !.at = "end"]]

\* next() on a generator of Results.__iter__ that has not finished: lines
\* 231-234 when it starts, line 235 from then on.
ResultsStep(c, it) ==
    IF it.at = "start"
    THEN IF ~c.results
         THEN [c |-> c, it |-> [it EXCEPT !.at = "raised"]]
         ELSE YieldFrom([c EXCEPT !.results = c.caching], it, 0)
    ELSE YieldFrom(c, it, it.pos + 1)

ResultsNext ==
    /\ cit.pc = "results"
    /\ \E i \in 1..Len(cit.iters) :
          /\ cit.iters[i].at \in {"start", "yield"}
          /\ LET r == ResultsStep(cit, cit.iters[i])
             IN cit' = [r.c EXCEPT !.iters[i] = r.it]
    /\ UNCHANGED <<dvars, ovars, inp, wire>>

\* Results.__bool__: next(iter(self)) on a new generator, which is dropped
\* afterwards; dropping it while it is suspended closes the generator it
\* delegates to, with cache=False the generator expression.
ResultsBool ==
    /\ cit.pc = "results"
    /\ cit.bools < MaxBools
    /\ LET r == ResultsStep(cit, NewIterator)
       IN cit' = [r.c EXCEPT !.bools = @ + 1,
                             !.truth = CASE r.it.at = "yield" -> "True"
                                         [] r.it.at = "end" -> "False"
                                         [] OTHER -> "AssertionError",
                             !.base = IF ~cit.caching /\ r.it.at = "yield" THEN << >> ELSE @]
    /\ UNCHANGED <<dvars, ovars, inp, wire>>

RNext == ResultsIter \/ ResultsNext \/ ResultsBool

InitResults == ResultsInit /\ DInit /\ OIdle /\ IIdle /\ WIdle

SpecResults == InitResults /\ [][RNext]_vars

(***************************************************************************)
(* C30: the truth test of a Results.                                       *)
(***************************************************************************)
\* The i-th iteration was requested after a truth test, has come to its
\* end (by StopIteration or by an exception), and no other iteration of the
\* Results was ever started.
OnlyIterationAfterBool(i) ==
    /\ cit.iters[i].after_bool
    /\ cit.iters[i].at \in {"end", "raised"}
    /\ \A j \in 1..Len(cit.iters) : j # i => cit.iters[j].at = "start"

\* C30 (as claimed): an iteration over a Results after bool() was applied
\* to it, the only iteration ever started on it, yields every result from
\* the first, with cache=True and with cache=False.
C30_IterationAfterBoolYieldsAll ==
    cit.pc = "results" =>
        \A i \in 1..Len(cit.iters) :
            OnlyIterationAfterBool(i) =>
                cit.iters[i].at = "end" /\ cit.iters[i].out = cit.items

====
